---------------------------- MODULE Spec2Model ----------------------------
(***************************************************************************)
(* Realtime audio bridging core of videosdk-openai-realtime-translator:    *)
(*   - CustomAudioStreamTrack (src/agent/audio_stream_track.py), the       *)
(*     outbound Audio Frame Scheduler, with its processing thread;         *)
(*   - OpenAIIntelligence (src/intelligence/openai/openai_intelligence.py),*)
(*     the Realtime Session Manager, running as asyncio tasks;             *)
(*   - AIAgent (src/agent/ai_agent.py), which wires the two together.      *)
(*                                                                         *)
(* Bytes are not modelled one by one.  A byte string is a sequence of      *)
(* segments [sub, off, len]: len bytes of submission number sub, starting  *)
(* at its byte off.  Submission 0 stands for zero bytes (silence).         *)
(* Slicing and concatenation are computed on segments, so frame sizes keep *)
(* their real values (960 bytes, 480 samples).                             *)
(***************************************************************************)
EXTENDS Integers, Sequences, FiniteSets, TLC

(***************************************************************************)
(* Bounds of the model.                                                    *)
(***************************************************************************)
MaxSubs == 2
MaxInterrupts == 1
MaxPulls == 3
MaxConns == 3
MaxEvents == 2
MaxSentLog == 1
MaxCloses == 2
MaxStreams == 2
MaxParticipants == 2
MaxPumps == 3

(***************************************************************************)
(* Program constants of CustomAudioStreamTrack.__init__.                   *)
(***************************************************************************)
AUDIO_PTIME_MS == 20
sample_rate == 24000
channels == 1
sample_width == 2
samples == (AUDIO_PTIME_MS * sample_rate) \div 1000
chunk_size == samples * channels * sample_width

\* The streams handed to add_new_bytes, each as the sizes in bytes of its
\* chunks: exactly one frame, less than one, more than two, and a stream of
\* two chunks (the agent itself only submits one-chunk streams).
StreamShapes == {<<960>>, <<500>>, <<2000>>, <<500, 960>>}

VARIABLES
  \* ---- CustomAudioStreamTrack fields
  frame_buffer,        \* list of built frames, oldest first
  audio_data_buffer,   \* bytearray of not yet sliced bytes
  task_queue,          \* _process_audio_task_queue: streams not yet taken
  skip_next_chunk,
  frame_time,
  started,             \* _start is not None
  timestamp,           \* _timestamp
  readyState,
  frames_processed,
  bytes_processed,
  \* ---- the processing thread (run_process_audio)
  threadPc,            \* "wait" | "get" | "iter" | "slice"
  cur,                 \* rest of the stream the thread iterates over
  \* ---- history of the calls made on the track
  nSubs,               \* number of add_new_bytes calls so far
  subLen,              \* subLen[i]: bytes of submission i
  subEpoch,            \* subEpoch[i]: interrupts returned before submission i
  nInterrupts,
  nrecv,               \* frames returned by recv so far
  last,                \* the frame recv returned last
  played,              \* concatenated payloads of the non-silence frames returned
  lastOp,              \* last call made on the event loop side of the track
  \* ---- OpenAIIntelligence fields
  ws,                  \* self.ws: 0 is None, else the number of a connection
  is_connected,        \* _is_connected
  reconnect_attempts,  \* _reconnect_attempts
  reconnect_delay,     \* _reconnect_delay
  receive_message_task,\* 0 is None, else the task running receive_message_handler
  http_closed,         \* _http_session.closed
  \* ---- AIAgent fields
  is_running,          \* _is_running
  retry_count,         \* retry_count of the add_audio_listener task
  audio_listener_tasks,\* per stream id: the task recorded for it, 0 if none
  human_participants,  \* the ids recorded by on_participant_joined
  left,                \* the participants that have left the meeting
  \* ---- the remote endpoint
  nConns,              \* connections opened so far
  connState,           \* per connection: "none" | "open" | "dropped" | "closed"
  inbox,               \* per connection: messages received and not yet read
  sent,                \* per connection: kinds of the messages sent on it
  \* ---- the asyncio event loop and its tasks
  stack,               \* stack[t]: coroutine frames of task t, innermost last
  tstate,              \* "new" | "ready" | "running" | "waiting" | "done" | "failed"
  awaiting,            \* what a waiting task is suspended on
  ready,               \* the loop's FIFO of handles to run
  running,             \* the task holding the loop, 0 if none
  retv,                \* result of the await or call the running task resumes from
  mustCancel,          \* tasks cancelled while running
  \* ---- history and budgets of the environment
  events,              \* failures and plain messages the environment produced so far
  nDeltas,             \* audio deltas received so far
  nSpeech,             \* speech-started messages received so far
  hookCalls,           \* calls of clear_audio_queue so far
  subHooks,            \* per submission: hookCalls at receipt and at put
  calledConnected,     \* connect() has been called with the flag set and the connection open
  closed_calls         \* calls of close() that have returned

trackVars == <<frame_buffer, audio_data_buffer, task_queue, skip_next_chunk,
               frame_time, started, timestamp, readyState, frames_processed,
               bytes_processed, threadPc, cur>>
histVars == <<nSubs, subLen, subEpoch, nInterrupts, nrecv, last, played, lastOp>>
connVars == <<ws, is_connected, reconnect_attempts, reconnect_delay,
              receive_message_task, nConns, connState, inbox, sent>>
loopVars == <<stack, tstate, awaiting, ready, running, retv, mustCancel>>
envVars == <<events, nDeltas, nSpeech, hookCalls, subHooks, calledConnected>>
sessVars == <<http_closed, closed_calls>>
streamVars == <<audio_listener_tasks, human_participants, left>>
lateVars == <<sessVars, streamVars>>
agentVars == <<connVars, loopVars, envVars, is_running, retry_count, lateVars>>
vars == <<trackVars, histVars, agentVars>>

(***************************************************************************)
(* Byte strings as segment sequences.                                      *)
(***************************************************************************)
Seg(s, o, n) == [sub |-> s, off |-> o, len |-> n]

RECURSIVE BufLen(_)
BufLen(buf) == IF buf = <<>> THEN 0 ELSE Head(buf).len + BufLen(Tail(buf))

\* b1 + b2 (bytes concatenation); adjacent pieces of one submission are merged
\* so that equal byte strings have equal representations.
Concat(b1, b2) ==
  IF b1 = <<>> THEN b2
  ELSE IF b2 = <<>> THEN b1
  ELSE LET l == b1[Len(b1)]
           h == Head(b2)
       IN IF l.sub = h.sub /\ l.off + l.len = h.off
          THEN SubSeq(b1, 1, Len(b1) - 1)
                 \o <<Seg(l.sub, l.off, l.len + h.len)>> \o Tail(b2)
          ELSE b1 \o b2

\* buf[:n]
RECURSIVE Take(_, _)
Take(buf, n) ==
  IF n <= 0 \/ buf = <<>> THEN <<>>
  ELSE LET h == Head(buf)
       IN IF h.len <= n THEN <<h>> \o Take(Tail(buf), n - h.len)
          ELSE <<Seg(h.sub, h.off, n)>>

\* buf[n:]
RECURSIVE Drop(_, _)
Drop(buf, n) ==
  IF n <= 0 \/ buf = <<>> THEN buf
  ELSE LET h == Head(buf)
       IN IF h.len <= n THEN Drop(Tail(buf), n - h.len)
          ELSE <<Seg(h.sub, h.off + n, h.len - n)>> \o Tail(buf)

\* The submissions that contribute a byte to buf (0: zero bytes).
SubsOf(buf) == {buf[i].sub : i \in 1..Len(buf)}

NoFrame == [data |-> <<>>, samples |-> 0, pts |-> -1, silent |-> FALSE, epoch |-> 0]

(***************************************************************************)
(* CustomAudioStreamTrack                                                  *)
(***************************************************************************)
\* buildAudioFrames: int16 samples of the chunk, one channel.
buildAudioFrames(chunk) ==
  [data |-> chunk, samples |-> BufLen(chunk) \div sample_width]

\* The silent frame recv synthesises: samples zero-valued samples.
SilenceFrame ==
  [data |-> <<Seg(0, 0, samples * channels * sample_width)>>, samples |-> samples]

TrackInit ==
  /\ frame_buffer = <<>>
  /\ audio_data_buffer = <<>>
  /\ task_queue = <<>>
  /\ skip_next_chunk = FALSE
  /\ frame_time = 0
  /\ started = FALSE
  /\ timestamp = 0
  /\ readyState = "live"
  /\ frames_processed = 0
  /\ bytes_processed = 0
  /\ threadPc = "wait"
  /\ cur = <<>>

HistInit ==
  /\ nSubs = 0
  /\ subLen = [i \in 1..0 |-> 0]
  /\ subEpoch = [i \in 1..0 |-> 0]
  /\ nInterrupts = 0
  /\ nrecv = 0
  /\ last = NoFrame
  /\ played = <<>>
  /\ lastOp = "none"

\* The stream iter([c1, c2, ...]) of submission s whose chunks have sizes.
RECURSIVE StreamOf(_, _, _)
StreamOf(s, sizes, off) ==
  IF sizes = <<>> THEN <<>>
  ELSE <<(<<Seg(s, off, Head(sizes))>>)>>
         \o StreamOf(s, Tail(sizes), off + Head(sizes))

RECURSIVE SumSeq(_)
SumSeq(q) == IF q = <<>> THEN 0 ELSE Head(q) + SumSeq(Tail(q))

\* The effect of interrupt() on the track's fields.
InterruptEffect ==
  /\ frame_buffer' = <<>>
  /\ task_queue' = <<>>
  /\ skip_next_chunk' = (skip_next_chunk \/ task_queue # <<>> \/ Len(frame_buffer) > 0)
  /\ UNCHANGED <<audio_data_buffer, frame_time, started, timestamp, readyState,
                 frames_processed, bytes_processed, threadPc, cur>>

\* interrupt()
Interrupt ==
  /\ nInterrupts < MaxInterrupts
  /\ InterruptEffect
  /\ nInterrupts' = nInterrupts + 1
  /\ lastOp' = "interrupt"
  /\ UNCHANGED <<nSubs, subLen, subEpoch, nrecv, last, played>>
  /\ UNCHANGED agentVars

\* The effect of add_new_bytes(iter(chunks)): the stream is put on the queue.
PutEffect(sizes) ==
  /\ task_queue' = Append(task_queue, StreamOf(nSubs + 1, sizes, 0))
  /\ nSubs' = nSubs + 1
  /\ subLen' = [i \in 1..(nSubs + 1) |-> IF i <= nSubs THEN subLen[i] ELSE SumSeq(sizes)]
  /\ subEpoch' = [i \in 1..(nSubs + 1) |-> IF i <= nSubs THEN subEpoch[i] ELSE nInterrupts]

\* add_new_bytes(audio_data_stream)
AddNewBytes ==
  /\ nSubs < MaxSubs
  /\ \E sizes \in StreamShapes : PutEffect(sizes)
  /\ lastOp' = "add_new_bytes"
  /\ UNCHANGED <<frame_buffer, audio_data_buffer, skip_next_chunk, frame_time,
                 started, timestamp, readyState, frames_processed,
                 bytes_processed, threadPc, cur>>
  /\ UNCHANGED <<nInterrupts, nrecv, last, played>>
  /\ UNCHANGED agentVars

\* _process_audio, lines 86-96: the thread waits until frame_buffer is empty.
ThreadWait ==
  /\ threadPc = "wait"
  /\ Len(frame_buffer) = 0
  /\ threadPc' = "get"
  /\ UNCHANGED <<frame_buffer, audio_data_buffer, task_queue, skip_next_chunk,
                 frame_time, started, timestamp, readyState, frames_processed,
                 bytes_processed, cur>>
  /\ UNCHANGED histVars
  /\ UNCHANGED agentVars

\* _process_audio, lines 101-103: the thread takes the next stream of the queue.
ThreadGet ==
  /\ threadPc = "get"
  /\ task_queue # <<>>
  /\ cur' = Head(task_queue)
  /\ task_queue' = Tail(task_queue)
  /\ threadPc' = "iter"
  /\ UNCHANGED <<frame_buffer, audio_data_buffer, skip_next_chunk, frame_time,
                 started, timestamp, readyState, frames_processed, bytes_processed>>
  /\ UNCHANGED histVars
  /\ UNCHANGED agentVars

\* _process_audio, lines 105-114: next chunk of the stream, appended to the buffer.
ThreadIter ==
  /\ threadPc = "iter"
  /\ IF cur = <<>>
     THEN /\ threadPc' = "wait"
          /\ UNCHANGED <<audio_data_buffer, bytes_processed, cur>>
     ELSE /\ audio_data_buffer' = Concat(audio_data_buffer, Head(cur))
          /\ bytes_processed' = bytes_processed + BufLen(Head(cur))
          /\ cur' = Tail(cur)
          /\ threadPc' = "slice"
  /\ UNCHANGED <<frame_buffer, task_queue, skip_next_chunk, frame_time, started,
                 timestamp, readyState, frames_processed>>
  /\ UNCHANGED histVars
  /\ UNCHANGED agentVars

\* The loop condition of line 116.
MoreToSlice(buf) == BufLen(buf) > chunk_size

\* _process_audio, lines 116-123: one turn of the slicing loop.
ThreadSlice ==
  /\ threadPc = "slice"
  /\ IF MoreToSlice(audio_data_buffer)
     THEN /\ frame_buffer' =
               Append(frame_buffer, buildAudioFrames(Take(audio_data_buffer, chunk_size)))
          /\ audio_data_buffer' = Drop(audio_data_buffer, chunk_size)
          /\ frames_processed' = frames_processed + 1
          /\ UNCHANGED threadPc
     ELSE /\ threadPc' = "iter"
          /\ UNCHANGED <<frame_buffer, audio_data_buffer, frames_processed>>
  /\ UNCHANGED <<task_queue, skip_next_chunk, frame_time, started, timestamp,
                 readyState, bytes_processed, cur>>
  /\ UNCHANGED histVars
  /\ UNCHANGED agentVars

\* A next_timestamp that hands out the time after the increment.
next_timestamp_pts_after == frame_time + samples

\* next_timestamp(): the pts handed out.
next_timestamp_pts == frame_time

\* A recv that pops the newest pending frame (pop() for pop(0)).
RecvFrameNewest ==
  IF Len(frame_buffer) > 0 THEN frame_buffer[Len(frame_buffer)] ELSE SilenceFrame

\* recv(), line 182-189: the frame handed out, the oldest pending one if any.
RecvFrame == IF Len(frame_buffer) > 0 THEN Head(frame_buffer) ELSE SilenceFrame

\* recv(), line 183: what is left of frame_buffer.
RecvRest == IF Len(frame_buffer) > 0 THEN Tail(frame_buffer) ELSE frame_buffer

\* A recv that waits for a pending frame instead of synthesising silence.
RecvGuardWaits == readyState = "live" /\ Len(frame_buffer) > 0

\* recv() runs whenever the track is live, whatever frame_buffer holds.
RecvGuard == readyState = "live"

\* recv() on a live track.  The pacing sleep of line 178 changes no field, and
\* no other code reads _start or _timestamp, so the call is one step taken at
\* the point where it reads frame_buffer.
Recv ==
  /\ nrecv < MaxPulls
  /\ RecvGuard
  /\ started' = TRUE
  /\ timestamp' = IF started THEN timestamp + samples ELSE 0
  /\ frame_time' = frame_time + samples
  /\ frame_buffer' = RecvRest
  /\ last' = [data |-> RecvFrame.data, samples |-> RecvFrame.samples,
              pts |-> next_timestamp_pts, silent |-> Len(frame_buffer) = 0,
              epoch |-> nInterrupts]
  /\ played' = IF Len(frame_buffer) > 0 THEN Concat(played, RecvFrame.data) ELSE played
  /\ nrecv' = nrecv + 1
  /\ lastOp' = "recv"
  /\ UNCHANGED <<audio_data_buffer, task_queue, skip_next_chunk, readyState,
                 frames_processed, bytes_processed, threadPc, cur>>
  /\ UNCHANGED <<nSubs, subLen, subEpoch, nInterrupts>>
  /\ UNCHANGED agentVars

\* The transport stops the track: readyState leaves "live" and recv raises
\* MediaStreamError from then on (lines 164-166).
Stop ==
  /\ readyState = "live"
  /\ readyState' = "ended"
  /\ UNCHANGED <<frame_buffer, audio_data_buffer, task_queue, skip_next_chunk,
                 frame_time, started, timestamp, frames_processed,
                 bytes_processed, threadPc, cur>>
  /\ UNCHANGED histVars
  /\ UNCHANGED agentVars

(***************************************************************************)
(* The asyncio event loop.  Coroutines run on one loop: a task holds the   *)
(* loop from the moment it is resumed until its next suspension, so the    *)
(* code between two awaits is atomic with respect to the other tasks.      *)
(* Tasks: 1 runs connect() for on_meeting_joined, 2 runs                   *)
(* add_audio_listener, 2 + c runs the receive_message_handler created by   *)
(* the c-th successful connect.  A handle of task 0 is an add_new_bytes    *)
(* task of on_audio_response.                                              *)
(***************************************************************************)
notLoop == <<trackVars, histVars, connVars, envVars, is_running, retry_count, lateVars>>
notLoopConn == <<trackVars, histVars, envVars, is_running, retry_count, lateVars>>

JoinTask == 1
PumpTask == 2
DispatchTask(c) == 2 + c
CloseTask == 3 + MaxConns
\* The tasks of add_audio_listener: one per stream-enabled event.
PumpTasks == {PumpTask} \cup ((4 + MaxConns)..(2 + MaxConns + MaxPumps))
Tasks == 1..(2 + MaxConns + MaxPumps)
Streams == 1..MaxStreams
Participants == 1..MaxParticipants
\* The participant a stream belongs to.
Owner(s) == ((s - 1) % MaxParticipants) + 1

\* A coroutine frame: loc is the coroutine's argument, conn the connection its
\* pending await is on.
Frame(fn, pc, loc) == [fn |-> fn, pc |-> pc, loc |-> loc, conn |-> 0]

\* A handle of the ready queue: the task to resume and what its await gave
\* (arg: the connection ws_connect returned; data: the audio of an
\* add_new_bytes task).
Handle(t, res, arg, data) == [task |-> t, res |-> res, arg |-> arg, data |-> data]

Top(t) == stack[t][Len(stack[t])]
SetTopPc(st, pc) == [st EXCEPT ![Len(st)].pc = pc]
SetTop(st, pc, c) == [st EXCEPT ![Len(st)] = [@ EXCEPT !.pc = pc, !.conn = c]]
Pop(st) == SubSeq(st, 1, Len(st) - 1)

\* The running task t is at label pc of function fn.
At(t, fn, pc) ==
  /\ running = t
  /\ t # 0
  /\ Top(t).fn = fn
  /\ Top(t).pc = pc

\* The running task goes on at pc of its innermost frame.
Goto(t, pc) ==
  /\ stack' = [stack EXCEPT ![t] = SetTopPc(@, pc)]
  /\ UNCHANGED <<tstate, awaiting, ready, running, retv, mustCancel>>

\* await fn(...): the caller will go on at pc when fn returns or raises.
CallFn(t, pc, fn, loc) ==
  /\ stack' = [stack EXCEPT ![t] = Append(SetTopPc(@, pc), Frame(fn, "entry", loc))]
  /\ UNCHANGED <<tstate, awaiting, ready, running, retv, mustCancel>>

\* The innermost coroutine returns (r = "ok") or raises (r = "exc", "cancel");
\* the task is done when its outermost coroutine does ("failed" when that one
\* raised an Exception), and a task suspended on `await t` is then queued with
\* the outcome.
Joiners(t) ==
  {k \in Tasks : tstate[k] = "waiting" /\ awaiting[k] = "task" /\ Top(k).loc = t}

Ret(t, r) ==
  /\ stack' = [stack EXCEPT ![t] = Pop(@)]
  /\ retv' = IF Len(stack[t]) = 1 THEN "ok" ELSE r
  /\ IF Len(stack[t]) = 1
     THEN /\ tstate' = [k \in Tasks |->
                         IF k = t THEN (IF r = "exc" THEN "failed" ELSE "done")
                         ELSE IF k \in Joiners(t) THEN "ready"
                         ELSE tstate[k]]
          /\ ready' = IF Joiners(t) = {} THEN ready
                      ELSE Append(ready, Handle(CHOOSE k \in Joiners(t) : TRUE,
                                                IF r = "exc" THEN "exc" ELSE "ok",
                                                0, <<>>))
          /\ running' = 0
     ELSE UNCHANGED <<tstate, running, ready>>
  /\ UNCHANGED <<awaiting, mustCancel>>

\* The call the running task is in raises: its frame goes on at pc with the
\* exception.
Raise(t, pc) ==
  /\ stack' = [stack EXCEPT ![t] = SetTopPc(@, pc)]
  /\ retv' = "exc"
  /\ UNCHANGED <<tstate, awaiting, ready, running, mustCancel>>

\* The task suspends on what, to go on at pc (c: the connection awaited on),
\* rdy being the ready queue its last run leaves.  A task cancelled while it
\* ran gets CancelledError at this await.
AwaitWith(t, pc, c, what, rdy) ==
  /\ stack' = [stack EXCEPT ![t] = SetTop(@, pc, c)]
  /\ running' = 0
  /\ IF mustCancel[t]
     THEN /\ ready' = Append(rdy, Handle(t, "cancel", 0, <<>>))
          /\ tstate' = [tstate EXCEPT ![t] = "ready"]
          /\ mustCancel' = [mustCancel EXCEPT ![t] = FALSE]
          /\ UNCHANGED awaiting
     ELSE /\ tstate' = [tstate EXCEPT ![t] = "waiting"]
          /\ awaiting' = [awaiting EXCEPT ![t] = what]
          /\ ready' = rdy
          /\ UNCHANGED mustCancel
  /\ retv' = "ok"

Await(t, pc, c, what) == AwaitWith(t, pc, c, what, ready)

\* task.cancel(), as new values of (tstate, ready, mustCancel).
CancelledState(k) ==
  IF k = 0 THEN tstate
  ELSE IF tstate[k] = "waiting" THEN [tstate EXCEPT ![k] = "ready"] ELSE tstate

CancelledReady(k) ==
  IF k = 0 THEN ready
  ELSE IF tstate[k] = "waiting" THEN Append(ready, Handle(k, "cancel", 0, <<>>))
  ELSE IF tstate[k] = "ready"
       THEN [i \in 1..Len(ready) |->
               IF ready[i].task = k THEN Handle(k, "cancel", 0, <<>>) ELSE ready[i]]
  ELSE ready

CancelledMust(k) ==
  IF k # 0 /\ tstate[k] = "running" THEN [mustCancel EXCEPT ![k] = TRUE] ELSE mustCancel

\* loop.create_task(coro): the new task is queued behind the handles already ready.
Spawned(rdy, k) == Append(rdy, Handle(k, "ok", 0, <<>>))

\* The loop runs the oldest ready handle of a task.
RunNext ==
  /\ running = 0
  /\ ready # <<>>
  /\ Head(ready).task # 0
  /\ LET h == Head(ready)
     IN /\ running' = h.task
        /\ retv' = h.res
        /\ tstate' = [tstate EXCEPT ![h.task] = "running"]
        /\ stack' = IF h.arg = 0 THEN stack
                    ELSE [stack EXCEPT ![h.task] = SetTop(@, Top(h.task).pc, h.arg)]
        /\ awaiting' = [awaiting EXCEPT ![h.task] = "none"]
  /\ ready' = Tail(ready)
  /\ UNCHANGED mustCancel
  /\ UNCHANGED notLoop

\* A timer of asyncio.sleep fires: the sleeping task becomes ready.
TimerFires(t) ==
  /\ running = 0
  /\ tstate[t] = "waiting"
  /\ awaiting[t] = "sleep"
  /\ tstate' = [tstate EXCEPT ![t] = "ready"]
  /\ ready' = Append(ready, Handle(t, "ok", 0, <<>>))
  /\ UNCHANGED <<stack, awaiting, running, retv, mustCancel>>
  /\ UNCHANGED notLoop

(***************************************************************************)
(* OpenAIIntelligence: connect, update_session, send_request,              *)
(* send_audio_data.  A connection of the endpoint is "open", "dropped"     *)
(* (the transport is gone but the client has not noticed: ws.closed is     *)
(* still False and sends fail) or "closed" (ws.closed is True).            *)
(***************************************************************************)
max_reconnect_attempts == 5
initial_reconnect_delay == 1
max_reconnect_delay == 30
SESSION_UPDATE == 1
AUDIO_APPEND == 2

\* self.session_update_params, the session configuration __init__ builds, and
\* a configuration a caller of update_session supplies.
session_update_params == 0
NewSession == 1

\* A client message: its kind and, for a session update, the configuration.
Message(kind, session) == [kind |-> kind, session |-> session]

\* A backoff whose delay is never capped.
Uncapped(a, b) == a

Min(a, b) == IF a <= b THEN a ELSE b

\* not self.ws or self.ws.closed
NotUsable == ws = 0 \/ connState[ws] = "closed"

\* A connect that never takes the early return of line 91.
ConnectedGuardNever == FALSE

\* connect(), line 90: the manager is Connected.
ConnectedGuard == is_connected /\ ws # 0 /\ connState[ws] # "closed"

IntelligenceInit ==
  /\ ws = 0
  /\ is_connected = FALSE
  /\ reconnect_attempts = 0
  /\ reconnect_delay = initial_reconnect_delay
  /\ receive_message_task = 0
  /\ http_closed = FALSE

\* connect(), lines 90-109: the early returns, else ws_connect is awaited; on a
\* closed session it raises RuntimeError at once.
ConnectEntry(t) ==
  /\ At(t, "connect", "entry")
  /\ IF ConnectedGuard
     THEN Ret(t, "ok")
     ELSE IF reconnect_attempts >= max_reconnect_attempts
     THEN Ret(t, "ok")
     ELSE IF http_closed
     THEN Raise(t, "ws_connect")
     ELSE Await(t, "ws_connect", 0, "ws_connect")
  /\ calledConnected' =
       (calledConnected \/ (is_connected /\ ws # 0 /\ connState[ws] = "open"))
  /\ UNCHANGED <<trackVars, histVars, connVars, is_running, retry_count, lateVars>>
  /\ UNCHANGED <<events, nDeltas, nSpeech, hookCalls, subHooks>>

\* connect(), lines 101-123: ws_connect returned a connection; the flags are
\* reset, the old message handler is cancelled, a new one is created and
\* update_session is awaited.
ConnectOpened(t) ==
  /\ At(t, "connect", "ws_connect")
  /\ retv = "ok"
  /\ LET c == Top(t).conn
         old == receive_message_task
         new == DispatchTask(c)
     IN /\ ws' = c
        /\ is_connected' = TRUE
        /\ reconnect_attempts' = 0
        /\ reconnect_delay' = initial_reconnect_delay
        /\ receive_message_task' = new
        /\ tstate' = [CancelledState(old) EXCEPT ![new] = "ready"]
        /\ ready' = Spawned(CancelledReady(old), new)
        /\ mustCancel' = CancelledMust(old)
        /\ stack' = [stack EXCEPT
              ![t] = Append(SetTopPc(@, "after_update"),
                            Frame("update_session", "entry", session_update_params)),
              ![new] = <<Frame("receive_message_handler", "entry", 0)>>]
  /\ UNCHANGED <<awaiting, running, retv>>
  /\ UNCHANGED <<nConns, connState, inbox, sent>>
  /\ UNCHANGED notLoopConn

\* connect(), lines 125-133: the except block up to the backoff sleep.  It is
\* entered when ws_connect or update_session raised, and left for the await of
\* ws.close() when there is a connection to close.
ConnectExcept(t) ==
  /\ running = t /\ t # 0 /\ Top(t).fn = "connect"
  /\ \/ Top(t).pc \in {"ws_connect", "after_update"} /\ retv = "exc"
     \/ Top(t).pc = "closing" /\ retv = "ok"
  /\ is_connected' = FALSE
  /\ IF Top(t).pc # "closing" /\ ws # 0
     THEN /\ Await(t, "closing", ws, "ws_close")
          /\ UNCHANGED <<ws, reconnect_attempts>>
     ELSE /\ ws' = 0
          /\ reconnect_attempts' = reconnect_attempts + 1
          /\ Await(t, "backoff", 0, "sleep")
  /\ UNCHANGED <<reconnect_delay, receive_message_task, nConns, connState, inbox, sent>>
  /\ UNCHANGED notLoopConn

\* connect(), lines 134-139: after the backoff the delay doubles, capped, the
\* connect is retried while attempts are left, and the exception is re-raised.
ConnectBackoff(t) ==
  /\ At(t, "connect", "backoff")
  /\ retv = "ok"
  /\ reconnect_delay' = Min(reconnect_delay * 2, max_reconnect_delay)
  /\ IF reconnect_attempts < max_reconnect_attempts
     THEN CallFn(t, "after_retry", "connect", 0)
     ELSE Ret(t, "exc")
  /\ UNCHANGED <<ws, is_connected, reconnect_attempts, receive_message_task,
                 nConns, connState, inbox, sent>>
  /\ UNCHANGED notLoopConn

\* connect(): how the call ends, line 123 having returned (normal return) or
\* the retry of line 138 having returned or raised (line 139 re-raises).
ConnectReturn(t) ==
  /\ running = t /\ t # 0 /\ Top(t).fn = "connect"
  /\ \/ Top(t).pc = "after_update" /\ retv = "ok"
     \/ Top(t).pc = "after_retry" /\ retv \in {"ok", "exc"}
  /\ Ret(t, IF Top(t).pc = "after_update" THEN "ok" ELSE "exc")
  /\ UNCHANGED notLoop

\* update_session(session), lines 141-150: session is the frame's argument.
UpdateSession(t) ==
  /\ running = t /\ t # 0 /\ Top(t).fn = "update_session"
  /\ \/ Top(t).pc = "entry"
     \/ Top(t).pc = "pre" /\ retv \in {"ok", "exc"}
  /\ IF Top(t).pc = "entry" /\ NotUsable
     THEN CallFn(t, "pre", "connect", 0)
     ELSE IF Top(t).pc = "pre" /\ retv = "exc"
     THEN Ret(t, "exc")
     ELSE CallFn(t, "sent", "send_request", Message(SESSION_UPDATE, Top(t).loc))
  /\ UNCHANGED notLoop

\* update_session(session), lines 151-154: send_request returned or raised.
UpdateSessionSent(t) ==
  /\ running = t /\ t # 0 /\ Top(t).fn = "update_session"
  /\ \/ Top(t).pc = "sent" /\ retv \in {"ok", "exc"}
     \/ Top(t).pc = "recon" /\ retv \in {"ok", "exc"}
  /\ IF Top(t).pc = "sent" /\ retv = "exc"
     THEN /\ is_connected' = FALSE
          /\ CallFn(t, "recon", "connect", 0)
     ELSE /\ Ret(t, IF Top(t).pc = "sent" THEN "ok" ELSE retv)
          /\ UNCHANGED is_connected
  /\ UNCHANGED <<ws, reconnect_attempts, reconnect_delay, receive_message_task,
                 nConns, connState, inbox, sent>>
  /\ UNCHANGED notLoopConn

\* send_request(request), lines 156-161: the lazy connect, then send_str on
\* self.ws (an AttributeError when self.ws is None, handled at line 162).
SendRequest(t) ==
  /\ running = t /\ t # 0 /\ Top(t).fn = "send_request"
  /\ \/ Top(t).pc = "entry"
     \/ Top(t).pc = "pre" /\ retv \in {"ok", "exc"}
  /\ IF Top(t).pc = "entry" /\ NotUsable
     THEN CallFn(t, "pre", "connect", 0) /\ UNCHANGED is_connected
     ELSE IF Top(t).pc = "pre" /\ retv = "exc"
     THEN Ret(t, "exc") /\ UNCHANGED is_connected
     ELSE IF ws = 0
     THEN CallFn(t, "recon", "connect", 0) /\ is_connected' = FALSE
     ELSE Await(t, "send_str", ws, "send_str") /\ UNCHANGED is_connected
  /\ UNCHANGED <<ws, reconnect_attempts, reconnect_delay, receive_message_task,
                 nConns, connState, inbox, sent>>
  /\ UNCHANGED notLoopConn

\* send_request(request), lines 161-165: send_str returned or raised.
SendRequestSent(t) ==
  /\ running = t /\ t # 0 /\ Top(t).fn = "send_request"
  /\ \/ Top(t).pc = "send_str" /\ retv \in {"ok", "exc"}
     \/ Top(t).pc = "recon" /\ retv \in {"ok", "exc"}
  /\ IF Top(t).pc = "send_str" /\ retv = "exc"
     THEN /\ is_connected' = FALSE
          /\ CallFn(t, "recon", "connect", 0)
     ELSE /\ Ret(t, IF Top(t).pc = "send_str" THEN "ok" ELSE retv)
          /\ UNCHANGED is_connected
  /\ UNCHANGED <<ws, reconnect_attempts, reconnect_delay, receive_message_task,
                 nConns, connState, inbox, sent>>
  /\ UNCHANGED notLoopConn

\* The messages of a kind in the log of a connection, which keeps the first
\* MaxSentLog messages of each kind.
Logged(log, kind) == Cardinality({i \in 1..Len(log) : log[i].kind = kind})

\* send_request(request), lines 156-161, when send_str on an open connection
\* hands the message to the transport and returns without suspending: the
\* task goes on without giving up the loop.
SendRequestAtOnce(t) ==
  /\ running = t /\ t # 0 /\ Top(t).fn = "send_request"
  /\ \/ Top(t).pc = "entry" /\ ~NotUsable
     \/ Top(t).pc = "pre" /\ retv = "ok"
  /\ ws # 0 /\ connState[ws] = "open"
  /\ sent' = [sent EXCEPT ![ws] =
                IF Logged(@, Top(t).loc.kind) < MaxSentLog
                THEN Append(@, Top(t).loc) ELSE @]
  /\ Ret(t, "ok")
  /\ UNCHANGED <<ws, is_connected, reconnect_attempts, reconnect_delay,
                 receive_message_task, nConns, connState, inbox>>
  /\ UNCHANGED notLoopConn

\* send_audio_data(audio_data), lines 167-174.
SendAudioData(t) ==
  /\ running = t /\ t # 0 /\ Top(t).fn = "send_audio_data"
  /\ \/ Top(t).pc = "entry"
     \/ Top(t).pc = "pre" /\ retv \in {"ok", "exc"}
  /\ IF Top(t).pc = "entry" /\ NotUsable
     THEN CallFn(t, "pre", "connect", 0)
     ELSE IF Top(t).pc = "pre" /\ retv = "exc"
     THEN Ret(t, "exc")
     ELSE CallFn(t, "sent", "send_request", Message(AUDIO_APPEND, 0))
  /\ UNCHANGED notLoop

\* send_audio_data(audio_data), lines 175-178: send_request returned or raised.
SendAudioDataSent(t) ==
  /\ running = t /\ t # 0 /\ Top(t).fn = "send_audio_data"
  /\ \/ Top(t).pc = "sent" /\ retv \in {"ok", "exc"}
     \/ Top(t).pc = "recon" /\ retv \in {"ok", "exc"}
  /\ IF Top(t).pc = "sent" /\ retv = "exc"
     THEN /\ is_connected' = FALSE
          /\ CallFn(t, "recon", "connect", 0)
     ELSE /\ Ret(t, IF Top(t).pc = "sent" THEN "ok" ELSE retv)
          /\ UNCHANGED is_connected
  /\ UNCHANGED <<ws, reconnect_attempts, reconnect_delay, receive_message_task,
                 nConns, connState, inbox, sent>>
  /\ UNCHANGED notLoopConn

\* CancelledError is no Exception: none of the except clauses of connect,
\* update_session, send_request and send_audio_data catches it.
PropagateCancel(t) ==
  /\ running = t /\ t # 0
  /\ Top(t).fn \in {"connect", "update_session", "send_request", "send_audio_data"}
  /\ Top(t).pc # "entry"
  /\ retv = "cancel"
  /\ Ret(t, "cancel")
  /\ UNCHANGED notLoop

\* close(), lines 214-216: the flag is cleared and the message handler, if
\* there is one, is cancelled.
CloseEntry(t) ==
  /\ At(t, "close", "entry")
  /\ is_connected' = FALSE
  /\ tstate' = CancelledState(receive_message_task)
  /\ ready' = CancelledReady(receive_message_task)
  /\ mustCancel' = CancelledMust(receive_message_task)
  /\ stack' = [stack EXCEPT ![t] =
                 [@ EXCEPT ![Len(@)] =
                    [@ EXCEPT !.pc = IF receive_message_task = 0
                                     THEN "close_ws" ELSE "await_task",
                              !.loc = receive_message_task]]]
  /\ UNCHANGED <<awaiting, running, retv>>
  /\ UNCHANGED <<ws, reconnect_attempts, reconnect_delay, receive_message_task,
                 nConns, connState, inbox, sent>>
  /\ UNCHANGED notLoopConn

\* close(), lines 217-220: await self.receive_message_task.  A task that is
\* done gives its outcome at once; CancelledError is swallowed and any other
\* exception of the task leaves close().
CloseAwaitTask(t) ==
  /\ At(t, "close", "await_task")
  /\ LET k == Top(t).loc
     IN IF tstate[k] = "failed" THEN Ret(t, "exc")
        ELSE IF tstate[k] = "done" THEN Goto(t, "close_ws")
        ELSE Await(t, "task_done", 0, "task")
  /\ UNCHANGED notLoop

\* close(), lines 222-223: if self.ws: await self.ws.close().  close() of a
\* connection that is closed returns at once.
CloseWs(t) ==
  /\ running = t /\ t # 0 /\ Top(t).fn = "close"
  /\ Top(t).pc \in {"close_ws", "task_done"}
  /\ IF Top(t).pc = "task_done" /\ retv = "exc"
     THEN Ret(t, "exc")
     ELSE IF ws # 0 /\ connState[ws] # "closed"
     THEN Await(t, "ws_closed", ws, "ws_close")
     ELSE Goto(t, "close_session")
  /\ UNCHANGED notLoop

\* close(), lines 225-226: the HTTP session is closed and close() returns.
CloseSession(t) ==
  /\ running = t /\ t # 0 /\ Top(t).fn = "close"
  /\ Top(t).pc \in {"close_session", "ws_closed"}
  /\ http_closed' = TRUE
  /\ closed_calls' = closed_calls + 1
  /\ Ret(t, "ok")
  /\ UNCHANGED <<trackVars, histVars, connVars, envVars, is_running, retry_count,
                 streamVars>>

(***************************************************************************)
(* The remote endpoint and the transport under aiohttp.                    *)
(***************************************************************************)
\* What a read of a dropped connection returns: a message of type ERROR
\* (CLOSED is handled by the same statements, lines 195-199).
DropMessage == [type |-> "ERROR", kind |-> "", size |-> 0, seq |-> 0]

\* The task t is suspended on what.
Waiting(t, what) == tstate[t] = "waiting" /\ awaiting[t] = what

Wake(t, res, arg) ==
  /\ tstate' = [tstate EXCEPT ![t] = "ready"]
  /\ ready' = Append(ready, Handle(t, res, arg, <<>>))
  /\ UNCHANGED <<stack, awaiting, running, retv, mustCancel>>

\* ws_connect completes: a new connection is open.
WsConnectOk(t) ==
  /\ running = 0
  /\ Waiting(t, "ws_connect")
  /\ ~http_closed
  /\ nConns < MaxConns
  /\ nConns' = nConns + 1
  /\ connState' = [connState EXCEPT ![nConns + 1] = "open"]
  /\ Wake(t, "ok", nConns + 1)
  /\ UNCHANGED <<ws, is_connected, reconnect_attempts, reconnect_delay,
                 receive_message_task, inbox, sent>>
  /\ UNCHANGED notLoopConn

\* ws_connect raises.
WsConnectFails(t) ==
  /\ running = 0
  /\ Waiting(t, "ws_connect")
  /\ events < MaxEvents
  /\ events' = events + 1
  /\ Wake(t, "exc", 0)
  /\ UNCHANGED <<nDeltas, nSpeech, hookCalls, subHooks, calledConnected>>
  /\ UNCHANGED <<trackVars, histVars, connVars, is_running, retry_count, lateVars>>

\* ws_connect raises because the session was closed while the call was
\* pending.
WsConnectAborted(t) ==
  /\ running = 0
  /\ Waiting(t, "ws_connect")
  /\ http_closed
  /\ Wake(t, "exc", 0)
  /\ UNCHANGED notLoop

\* ws.close() completes: the connection is closed.
WsCloseDone(t) ==
  /\ running = 0
  /\ Waiting(t, "ws_close")
  /\ connState' = [connState EXCEPT ![Top(t).conn] = "closed"]
  /\ Wake(t, "ok", 0)
  /\ UNCHANGED <<ws, is_connected, reconnect_attempts, reconnect_delay,
                 receive_message_task, nConns, inbox, sent>>
  /\ UNCHANGED notLoopConn


\* ws.send_str completes: the message is on an open connection, and the call
\* raises on a dropped or closed one.
WsSendStr(t) ==
  /\ running = 0
  /\ Waiting(t, "send_str")
  /\ LET c == Top(t).conn
     IN IF connState[c] = "open"
        THEN /\ sent' = [sent EXCEPT ![c] =
                           IF Logged(@, Top(t).loc.kind) < MaxSentLog
                           THEN Append(@, Top(t).loc) ELSE @]
             /\ Wake(t, "ok", 0)
        ELSE /\ Wake(t, "exc", 0)
             /\ UNCHANGED sent
  /\ UNCHANGED <<ws, is_connected, reconnect_attempts, reconnect_delay,
                 receive_message_task, nConns, connState, inbox>>
  /\ UNCHANGED notLoopConn

\* The transport of an open connection goes away.  The client learns of it by
\* a CLOSED or ERROR message on its next read, or by a failing send.
Drops(c) ==
  /\ running = 0
  /\ connState[c] = "open"
  /\ events < MaxEvents
  /\ events' = events + 1
  /\ connState' = [connState EXCEPT ![c] = "dropped"]
  /\ inbox' = [inbox EXCEPT ![c] = Append(@, DropMessage)]
  /\ IF \E t \in Tasks : Waiting(t, "ws_msg") /\ Top(t).conn = c
     THEN Wake(CHOOSE t \in Tasks : Waiting(t, "ws_msg") /\ Top(t).conn = c, "ok", 0)
     ELSE UNCHANGED loopVars
  /\ UNCHANGED <<ws, is_connected, reconnect_attempts, reconnect_delay,
                 receive_message_task, nConns, sent>>
  /\ UNCHANGED <<nDeltas, nSpeech, hookCalls, subHooks, calledConnected>>
  /\ UNCHANGED <<trackVars, histVars, is_running, retry_count, lateVars>>

\* The messages counted by nDeltas and nSpeech; every other one is an event.
IsAudioEvent(m) ==
  m.kind \in {"response.audio.delta", "input_audio_buffer.speech_started"}

\* A text message of the endpoint arrives on an open connection.
MsgArrives(c, m) ==
  /\ running = 0
  /\ connState[c] = "open"
  /\ ~IsAudioEvent(m) => events < MaxEvents
  /\ events' = IF IsAudioEvent(m) THEN events ELSE events + 1
  /\ m.kind = "response.audio.delta" => nDeltas < MaxSubs
  /\ m.kind = "input_audio_buffer.speech_started" => nSpeech < MaxInterrupts
  /\ nDeltas' = IF m.kind = "response.audio.delta" THEN nDeltas + 1 ELSE nDeltas
  /\ nSpeech' = IF m.kind = "input_audio_buffer.speech_started" THEN nSpeech + 1 ELSE nSpeech
  /\ inbox' = [inbox EXCEPT ![c] = Append(@, [m EXCEPT !.seq = nDeltas'])]
  /\ IF \E t \in Tasks : Waiting(t, "ws_msg") /\ Top(t).conn = c
     THEN Wake(CHOOSE t \in Tasks : Waiting(t, "ws_msg") /\ Top(t).conn = c, "ok", 0)
     ELSE UNCHANGED loopVars
  /\ UNCHANGED <<ws, is_connected, reconnect_attempts, reconnect_delay,
                 receive_message_task, nConns, connState, sent>>
  /\ UNCHANGED <<hookCalls, subHooks, calledConnected>>
  /\ UNCHANGED <<trackVars, histVars, is_running, retry_count, lateVars>>

(***************************************************************************)
(* OpenAIIntelligence.receive_message_handler and handle_response.         *)
(***************************************************************************)
\* The interruption hook of an agent built by AIAgent.__init__: the
\* constructor call of lines 77-102 passes no clear_audio_queue, so the hook
\* is the default of OpenAIIntelligence.__init__, lambda: None.
clear_audio_queue == UNCHANGED <<trackVars, nInterrupts, lastOp>>

\* A handler that reads the next message without the sleep of line 201.
AfterTextNoSleep(t, rdy) ==
  /\ stack' = [stack EXCEPT ![t] = SetTopPc(@, "iter")]
  /\ ready' = rdy
  /\ UNCHANGED <<tstate, awaiting, running, retv, mustCancel>>

\* receive_message_handler, line 201: await asyncio.sleep(0.01) after a text
\* message, rdy being the ready queue handle_response leaves.
AfterText(t, rdy) == AwaitWith(t, "slept", Top(t).conn, "sleep", rdy)

\* receive_message_handler, lines 181-187: the top of the while loop.
DispatchTop(t) ==
  /\ running = t /\ t # 0 /\ Top(t).fn = "receive_message_handler"
  /\ \/ Top(t).pc = "top"
     \/ Top(t).pc \in {"entry", "top_slept", "reconnected", "exc_connected"} /\ retv = "ok"
  /\ IF ws = 0
     THEN Await(t, "top_slept", 0, "sleep")
     ELSE /\ stack' = [stack EXCEPT ![t] = SetTop(@, "iter", ws)]
          /\ UNCHANGED <<tstate, awaiting, ready, running, retv, mustCancel>>
  /\ UNCHANGED notLoop

\* Task u is in a read of connection c that it has not come back from: it
\* waits for a message, or it has been woken, by the message or by a
\* CancelledError, and has not run since.
Reading(u, c) ==
  /\ tstate[u] \in {"waiting", "ready"}
  /\ stack[u] # <<>>
  /\ Top(u).fn = "receive_message_handler"
  /\ Top(u).pc = "msg"
  /\ Top(u).conn = c

\* receive_message_handler, line 187: async for asks the connection for its
\* next message.  A buffered message is returned at once, a closed
\* connection ends the iteration, a second reader of one connection gets a
\* RuntimeError (lines 206-209), and otherwise the task waits.
DispatchRead(t) ==
  /\ running = t /\ t # 0 /\ Top(t).fn = "receive_message_handler"
  /\ \/ Top(t).pc = "iter"
     \/ Top(t).pc \in {"msg", "slept"} /\ retv = "ok"
  /\ LET c == Top(t).conn
     IN IF \E u \in Tasks \ {t} : Reading(u, c)
        THEN /\ is_connected' = FALSE
             /\ Await(t, "exc_slept", 0, "sleep")
        ELSE /\ UNCHANGED is_connected
             /\ IF inbox[c] # <<>> THEN Goto(t, "handle")
                ELSE IF connState[c] = "closed" THEN Goto(t, "top")
                ELSE Await(t, "msg", c, "ws_msg")
  /\ UNCHANGED <<ws, reconnect_attempts, reconnect_delay, receive_message_task,
                 nConns, connState, inbox, sent>>
  /\ UNCHANGED notLoopConn

\* receive_message_handler, lines 188-189 and 201, with handle_response
\* (lines 235-278) and on_audio_response (lines 228-233): an audio delta
\* creates an add_new_bytes task, speech-started calls the hook, and a
\* message of any other type but function-call-arguments-done, or one that
\* has no type or is no JSON (lines 275-278), is logged at most.
HandleResponse(t) ==
  /\ At(t, "receive_message_handler", "handle")
  /\ LET c == Top(t).conn
         m == Head(inbox[c])
     IN /\ m.type = "TEXT"
        /\ m.kind # "response.function_call_arguments.done"
        /\ inbox' = [inbox EXCEPT ![c] = Tail(@)]
        /\ IF m.kind = "response.audio.delta"
           THEN /\ AfterText(t, Append(ready, Handle(0, "ok", hookCalls, <<m.size, m.seq>>)))
                /\ UNCHANGED <<trackVars, nInterrupts, lastOp, hookCalls>>
           ELSE IF m.kind = "input_audio_buffer.speech_started"
           THEN /\ hookCalls' = hookCalls + 1
                /\ clear_audio_queue
                /\ AfterText(t, ready)
           ELSE /\ AfterText(t, ready)
                /\ UNCHANGED <<trackVars, nInterrupts, lastOp, hookCalls>>
  /\ UNCHANGED <<nSubs, subLen, subEpoch, nrecv, last, played>>
  /\ UNCHANGED <<ws, is_connected, reconnect_attempts, reconnect_delay,
                 receive_message_task, nConns, connState, sent>>
  /\ UNCHANGED <<events, nDeltas, nSpeech, subHooks, calledConnected>>
  /\ UNCHANGED <<is_running, retry_count, lateVars>>

\* handle_response, lines 259-265, for a function-call-arguments-done message:
\* the registered handler runs in the default executor and the dispatch task
\* awaits its future; when it is done the sleep of line 201 follows.
HandleFunctionCall(t) ==
  /\ running = t /\ t # 0 /\ Top(t).fn = "receive_message_handler"
  /\ \/ /\ Top(t).pc = "handle"
        /\ Head(inbox[Top(t).conn]).type = "TEXT"
        /\ Head(inbox[Top(t).conn]).kind = "response.function_call_arguments.done"
     \/ Top(t).pc = "fn_done" /\ retv = "ok"
  /\ IF Top(t).pc = "handle"
     THEN /\ inbox' = [inbox EXCEPT ![Top(t).conn] = Tail(@)]
          /\ Await(t, "fn_done", Top(t).conn, "executor")
     ELSE /\ UNCHANGED inbox
          /\ AfterText(t, ready)
  /\ UNCHANGED <<ws, is_connected, reconnect_attempts, reconnect_delay,
                 receive_message_task, nConns, connState, sent>>
  /\ UNCHANGED notLoopConn

\* The registered handler (AIAgent.handle_translation) returns in its
\* executor thread: the future the dispatch task awaits is done.
HandlerFinishes(t) ==
  /\ running = 0
  /\ Waiting(t, "executor")
  /\ Wake(t, "ok", 0)
  /\ UNCHANGED notLoop

\* add_new_bytes, run as the task on_audio_response created.
RunAddNewBytes ==
  /\ running = 0
  /\ ready # <<>>
  /\ Head(ready).task = 0
  /\ LET h == Head(ready)
     IN /\ PutEffect(<<h.data[1]>>)
        /\ subHooks' = Append(subHooks, [recv |-> h.arg, put |-> hookCalls, seq |-> h.data[2]])
  /\ ready' = Tail(ready)
  /\ lastOp' = "add_new_bytes"
  /\ UNCHANGED <<frame_buffer, audio_data_buffer, skip_next_chunk, frame_time,
                 started, timestamp, readyState, frames_processed,
                 bytes_processed, threadPc, cur>>
  /\ UNCHANGED <<nInterrupts, nrecv, last, played>>
  /\ UNCHANGED <<stack, tstate, awaiting, running, retv, mustCancel>>
  /\ UNCHANGED <<events, nDeltas, nSpeech, hookCalls, calledConnected>>
  /\ UNCHANGED <<connVars, is_running, retry_count, lateVars>>

\* A handler that takes a text message of type error for a transport error.
ClosesOnErrorText(m) == m.type \in {"ERROR", "CLOSED"} \/ m.kind = "error"

\* receive_message_handler, lines 190 and 195: the message types that make
\* the handler reconnect.
Closes(m) == m.type \in {"ERROR", "CLOSED"}

\* receive_message_handler, lines 190-199: the connection reported ERROR or
\* CLOSED; the handler reconnects.
DispatchClosed(t) ==
  /\ At(t, "receive_message_handler", "handle")
  /\ LET c == Top(t).conn
     IN /\ Closes(Head(inbox[c]))
        /\ inbox' = [inbox EXCEPT ![c] = Tail(@)]
        /\ connState' = [connState EXCEPT ![c] = "closed"]
  /\ is_connected' = FALSE
  /\ CallFn(t, "reconnected", "connect", 0)
  /\ UNCHANGED <<ws, reconnect_attempts, reconnect_delay, receive_message_task,
                 nConns, sent>>
  /\ UNCHANGED notLoopConn

\* receive_message_handler, lines 203-210: the except clauses.  CancelledError
\* inside the try breaks the loop; an exception of the loop body (the connect
\* of line 193 or 198 raised, or a second reader of a connection) marks the
\* manager disconnected, sleeps and connects again; CancelledError or an
\* exception inside that except clause leaves the coroutine.
DispatchExcept(t) ==
  /\ running = t /\ t # 0 /\ Top(t).fn = "receive_message_handler"
  /\ \/ retv = "cancel" /\ Top(t).pc \in {"entry", "top_slept", "msg", "slept", "fn_done",
                                           "reconnected", "exc_slept", "exc_connected"}
     \/ retv = "exc" /\ Top(t).pc \in {"reconnected", "exc_connected"}
     \/ retv = "ok" /\ Top(t).pc = "exc_slept"
  /\ IF retv = "exc" /\ Top(t).pc = "reconnected"
     THEN /\ is_connected' = FALSE
          /\ Await(t, "exc_slept", 0, "sleep")
     ELSE IF retv = "ok"
     THEN /\ UNCHANGED is_connected
          /\ CallFn(t, "exc_connected", "connect", 0)
     ELSE /\ UNCHANGED is_connected
          /\ Ret(t, IF Top(t).pc \in {"exc_slept", "exc_connected"} THEN retv ELSE "ok")
  /\ UNCHANGED <<ws, reconnect_attempts, reconnect_delay, receive_message_task,
                 nConns, connState, inbox, sent>>
  /\ UNCHANGED notLoopConn

(***************************************************************************)
(* AIAgent: the connect task of on_meeting_joined and the audio pump       *)
(* add_audio_listener of one inbound stream.                               *)
(***************************************************************************)
max_retries == 3

AgentInit ==
  /\ is_running = TRUE
  /\ retry_count = 0
  /\ audio_listener_tasks = [s \in Streams |-> 0]
  /\ human_participants = {}
  /\ left = {}

LoopInit ==
  /\ stack = [t \in Tasks |-> <<>>]
  /\ tstate = [t \in Tasks |-> "new"]
  /\ awaiting = [t \in Tasks |-> "none"]
  /\ ready = <<>>
  /\ running = 0
  /\ retv = "ok"
  /\ mustCancel = [t \in Tasks |-> FALSE]

EndpointInit ==
  /\ nConns = 0
  /\ connState = [c \in 1..MaxConns |-> "none"]
  /\ inbox = [c \in 1..MaxConns |-> <<>>]
  /\ sent = [c \in 1..MaxConns |-> <<>>]

EnvInit ==
  /\ events = 0
  /\ nDeltas = 0
  /\ nSpeech = 0
  /\ hookCalls = 0
  /\ subHooks = <<>>
  /\ calledConnected = FALSE
  /\ closed_calls = 0

\* on_meeting_joined: asyncio.create_task(self.intelligence.connect()).
OnMeetingJoined ==
  /\ running = 0
  /\ tstate[JoinTask] = "new"
  /\ stack' = [stack EXCEPT ![JoinTask] = <<Frame("connect", "entry", 0)>>]
  /\ tstate' = [tstate EXCEPT ![JoinTask] = "ready"]
  /\ ready' = Spawned(ready, JoinTask)
  /\ UNCHANGED <<awaiting, running, retv, mustCancel>>
  /\ UNCHANGED notLoop

\* A handler that calls cancel() on no task.
CancelNothing(k) == 0

\* A handler that calls cancel() only on a task that is suspended.
CancelWaiting(k) == IF k = 0 \/ tstate[k] # "waiting" THEN 0 ELSE k

\* `task and not task.done()`: the task cancel() is called on, 0 if none.
ToCancel(k) == IF k = 0 \/ tstate[k] \in {"done", "failed"} THEN 0 ELSE k

\* task.cancel() for every task of K, as new values of (tstate, ready); the
\* callbacks of the meeting run while no task does.
CancelledAllState(K) ==
  [t \in Tasks |-> IF t \in K /\ tstate[t] = "waiting" THEN "ready" ELSE tstate[t]]

RECURSIVE CancelHandles(_, _)
CancelHandles(K, s) ==
  IF s > MaxStreams THEN <<>>
  ELSE (IF audio_listener_tasks[s] \in K /\ tstate[audio_listener_tasks[s]] = "waiting"
        THEN <<Handle(audio_listener_tasks[s], "cancel", 0, <<>>)>> ELSE <<>>)
       \o CancelHandles(K, s + 1)

CancelledAllReady(K) ==
  [i \in 1..Len(ready) |->
     IF ready[i].task \in K THEN Handle(ready[i].task, "cancel", 0, <<>>) ELSE ready[i]]
  \o CancelHandles(K, 1)

\* on_stream_enabled(stream) for an audio stream, lines 211-223: the task
\* recorded for the stream id is cancelled when it is not done, and a new task
\* k of add_audio_listener is created and recorded.
StreamEnabled(s, k) ==
  /\ running = 0
  /\ k \in PumpTasks
  /\ tstate[k] = "new"
  /\ LET K == {ToCancel(audio_listener_tasks[s])} \ {0}
     IN /\ tstate' = [CancelledAllState(K) EXCEPT ![k] = "ready"]
        /\ ready' = Spawned(CancelledAllReady(K), k)
  /\ audio_listener_tasks' = [audio_listener_tasks EXCEPT ![s] = k]
  /\ stack' = [stack EXCEPT ![k] = <<Frame("add_audio_listener", "entry", s)>>]
  /\ UNCHANGED <<awaiting, running, retv, mustCancel>>
  /\ UNCHANGED <<trackVars, histVars, connVars, envVars, is_running, retry_count,
                 sessVars, human_participants, left>>

\* The audio stream of an agent with one inbound stream is enabled.
OnStreamEnabled == StreamEnabled(1, PumpTask)

\* on_stream_disabled(stream) for an audio stream, lines 225-231: the task
\* recorded for the stream id is cancelled when it is not done, and the stream
\* id is forgotten.
StreamDisabled(s) ==
  /\ running = 0
  /\ LET K == {ToCancel(audio_listener_tasks[s])} \ {0}
     IN /\ tstate' = CancelledAllState(K)
        /\ ready' = CancelledAllReady(K)
  /\ audio_listener_tasks' = [audio_listener_tasks EXCEPT ![s] = 0]
  /\ UNCHANGED <<stack, awaiting, running, retv, mustCancel>>
  /\ UNCHANGED <<trackVars, histVars, connVars, envVars, is_running, retry_count,
                 sessVars, human_participants, left>>

\* on_participant_joined, lines 199-239: a participant other than the agent
\* is recorded, and the stream handlers of the participant are registered.
ParticipantJoined(p) ==
  /\ running = 0
  /\ p \notin human_participants \cup left
  /\ human_participants' = human_participants \cup {p}
  /\ UNCHANGED <<trackVars, histVars, connVars, loopVars, envVars, is_running,
                 retry_count, sessVars, audio_listener_tasks, left>>

\* on_participant_left, lines 241-244: the participant is forgotten.
ParticipantLeft(p) ==
  /\ running = 0
  /\ p \in human_participants
  /\ human_participants' = human_participants \ {p}
  /\ left' = left \cup {p}
  /\ UNCHANGED <<trackVars, histVars, connVars, loopVars, envVars, is_running,
                 retry_count, sessVars, audio_listener_tasks>>

\* on_meeting_left, lines 191-197: the running flag is cleared and every
\* recorded task that is not done is cancelled.
OnMeetingLeft ==
  /\ running = 0
  /\ is_running
  /\ is_running' = FALSE
  /\ LET K == {ToCancel(audio_listener_tasks[s]) : s \in Streams} \ {0}
     IN /\ tstate' = CancelledAllState(K)
        /\ ready' = CancelledAllReady(K)
  /\ UNCHANGED <<stack, awaiting, running, retv, mustCancel>>
  /\ UNCHANGED <<trackVars, histVars, connVars, envVars, retry_count, lateVars>>

\* add_audio_listener, lines 139-145: the loop test, the poll sleep, the
\* check of the connection and the await of the next inbound frame.
PumpLoop(t) ==
  /\ running = t /\ t # 0 /\ Top(t).fn = "add_audio_listener"
  /\ \/ Top(t).pc = "loop"
     \/ Top(t).pc \in {"entry", "polled", "cooled"} /\ retv = "ok"
  /\ IF Top(t).pc = "polled" /\ ~NotUsable
     THEN Await(t, "got_frame", 0, "track_recv")
     ELSE IF is_running
     THEN Await(t, "polled", 0, "sleep")
     ELSE Ret(t, "ok")
  /\ UNCHANGED notLoop

\* add_audio_listener, lines 146-170: the frame is transcoded and sent when
\* the connection is not closed; a returned send resets retry_count.
PumpSend(t) ==
  /\ running = t /\ t # 0 /\ Top(t).fn = "add_audio_listener"
  /\ \/ Top(t).pc = "got_frame" /\ retv = "ok" /\ ws # 0
     \/ Top(t).pc = "sent" /\ retv = "ok"
  /\ IF Top(t).pc = "sent"
     THEN retry_count' = 0 /\ Goto(t, "loop")
     ELSE IF connState[ws] # "closed"
     THEN UNCHANGED retry_count /\ CallFn(t, "sent", "send_audio_data", 0)
     ELSE UNCHANGED retry_count /\ Goto(t, "loop")
  /\ UNCHANGED <<trackVars, histVars, connVars, envVars, is_running, lateVars>>

\* add_audio_listener, lines 175-185: an exception of the loop body (the
\* inbound stream or the transcoding failed, self.intelligence.ws was None
\* at line 168, or send_audio_data raised) is counted; the third one calls
\* connect and resets the count; then the one second sleep.
PumpError(t) ==
  /\ running = t /\ t # 0 /\ Top(t).fn = "add_audio_listener"
  /\ \/ Top(t).pc \in {"got_frame", "sent"} /\ retv = "exc"
     \/ Top(t).pc = "got_frame" /\ retv = "ok" /\ ws = 0
     \/ Top(t).pc = "reconnected" /\ retv = "ok"
  /\ IF Top(t).pc = "reconnected"
     THEN /\ retry_count' = 0
          /\ Await(t, "cooled", 0, "sleep")
     ELSE IF retry_count + 1 >= max_retries
     THEN /\ retry_count' = retry_count + 1
          /\ CallFn(t, "reconnected", "connect", 0)
     ELSE /\ retry_count' = retry_count + 1
          /\ Await(t, "cooled", 0, "sleep")
  /\ UNCHANGED <<trackVars, histVars, connVars, envVars, is_running, lateVars>>

\* add_audio_listener ends: CancelledError inside the try breaks the loop
\* (lines 172-174); CancelledError or an exception of connect inside the
\* except clause of lines 175-185 leaves the coroutine.
PumpEnds(t) ==
  /\ running = t /\ t # 0 /\ Top(t).fn = "add_audio_listener"
  /\ \/ retv = "cancel" /\ Top(t).pc \in {"entry", "polled", "got_frame", "sent",
                                           "reconnected", "cooled"}
     \/ retv = "exc" /\ Top(t).pc = "reconnected"
  /\ Ret(t, IF Top(t).pc \in {"reconnected", "cooled"} THEN retv ELSE "ok")
  /\ UNCHANGED notLoop

\* stream.track.recv() returns the next inbound frame.
TrackRecvOk(t) ==
  /\ running = 0
  /\ Waiting(t, "track_recv")
  /\ Wake(t, "ok", 0)
  /\ UNCHANGED notLoop

\* stream.track.recv() or the transcoding of its frame raises.
TrackRecvFails(t) ==
  /\ running = 0
  /\ Waiting(t, "track_recv")
  /\ events < MaxEvents
  /\ events' = events + 1
  /\ Wake(t, "exc", 0)
  /\ UNCHANGED <<nDeltas, nSpeech, hookCalls, subHooks, calledConnected>>
  /\ UNCHANGED <<trackVars, histVars, connVars, is_running, retry_count, lateVars>>

(***************************************************************************)
(* The Session Manager of a running agent: the connect task, one audio     *)
(* pump, the message handlers and the endpoint.                            *)
(***************************************************************************)
\* The text messages of the endpoint that touch no audio.
OtherMessage == [type |-> "TEXT", kind |-> "session.updated", size |-> 0, seq |-> 0]

InitConn ==
  /\ TrackInit /\ HistInit
  /\ IntelligenceInit /\ AgentInit /\ LoopInit /\ EndpointInit /\ EnvInit

NextConn ==
  \/ OnMeetingJoined
  \/ OnStreamEnabled
  \/ OnMeetingLeft
  \/ RunNext
  \/ \E t \in Tasks : TimerFires(t)
  \/ \E t \in Tasks : ConnectEntry(t)
  \/ \E t \in Tasks : ConnectOpened(t)
  \/ \E t \in Tasks : ConnectExcept(t)
  \/ \E t \in Tasks : ConnectBackoff(t)
  \/ \E t \in Tasks : ConnectReturn(t)
  \/ \E t \in Tasks : UpdateSession(t)
  \/ \E t \in Tasks : UpdateSessionSent(t)
  \/ \E t \in Tasks : SendRequest(t)
  \/ \E t \in Tasks : SendRequestSent(t)
  \/ \E t \in Tasks : SendAudioData(t)
  \/ \E t \in Tasks : SendAudioDataSent(t)
  \/ \E t \in Tasks : PropagateCancel(t)
  \/ \E t \in Tasks : DispatchTop(t)
  \/ \E t \in Tasks : DispatchRead(t)
  \/ \E t \in Tasks : HandleResponse(t)
  \/ \E t \in Tasks : DispatchClosed(t)
  \/ \E t \in Tasks : DispatchExcept(t)
  \/ \E t \in Tasks : PumpLoop(t)
  \/ \E t \in Tasks : PumpSend(t)
  \/ \E t \in Tasks : PumpError(t)
  \/ \E t \in Tasks : PumpEnds(t)
  \/ \E t \in Tasks : TrackRecvOk(t)
  \/ \E t \in Tasks : TrackRecvFails(t)
  \/ \E t \in Tasks : WsConnectOk(t)
  \/ \E t \in Tasks : WsConnectFails(t)
  \/ \E t \in Tasks : WsCloseDone(t)
  \/ \E t \in Tasks : WsSendStr(t)
  \/ \E c \in 1..MaxConns : Drops(c)
  \/ \E c \in 1..MaxConns : MsgArrives(c, OtherMessage)

SpecConn == InitConn /\ [][NextConn]_vars

(***************************************************************************)
(* The agent in a meeting with a healthy endpoint: the connect task of     *)
(* on_meeting_joined, the message handler, the add_new_bytes tasks it      *)
(* creates, the processing thread of the track and the transport pulling   *)
(* frames.                                                                 *)
(***************************************************************************)
\* The audio deltas of the endpoint, by the size in bytes of the decoded
\* audio: less than one frame and more than two.
DeltaMessages ==
  { [type |-> "TEXT", kind |-> "response.audio.delta", size |-> n, seq |-> 0] :
      n \in {500, 2000} }

SpeechStarted ==
  [type |-> "TEXT", kind |-> "input_audio_buffer.speech_started", size |-> 0, seq |-> 0]

\* recv() is a coroutine the transport runs on the agent's event loop.
LoopRecv == running = 0 /\ Recv

InitAgent ==
  /\ TrackInit /\ HistInit
  /\ IntelligenceInit /\ AgentInit /\ LoopInit /\ EndpointInit /\ EnvInit

NextAgent ==
  \/ OnMeetingJoined
  \/ RunNext
  \/ \E t \in Tasks : TimerFires(t)
  \/ \E t \in Tasks : ConnectEntry(t)
  \/ \E t \in Tasks : ConnectOpened(t)
  \/ \E t \in Tasks : ConnectReturn(t)
  \/ \E t \in Tasks : UpdateSession(t)
  \/ \E t \in Tasks : UpdateSessionSent(t)
  \/ \E t \in Tasks : SendRequest(t)
  \/ \E t \in Tasks : SendRequestSent(t)
  \/ \E t \in Tasks : WsConnectOk(t)
  \/ \E t \in Tasks : WsSendStr(t)
  \/ \E t \in Tasks : DispatchTop(t)
  \/ \E t \in Tasks : DispatchRead(t)
  \/ \E t \in Tasks : HandleResponse(t)
  \/ RunAddNewBytes
  \/ \E c \in 1..MaxConns : \E m \in DeltaMessages : MsgArrives(c, m)
  \/ \E c \in 1..MaxConns : MsgArrives(c, SpeechStarted)
  \/ ThreadWait
  \/ ThreadGet
  \/ ThreadIter
  \/ ThreadSlice
  \/ LoopRecv

SpecAgent == InitAgent /\ [][NextAgent]_vars

(***************************************************************************)
(* A fresh agent whose endpoint cannot be reached: every ws_connect of the *)
(* connect task raises.  The pump of an inbound stream runs beside it, and *)
(* the meeting may be left.                                                *)
(***************************************************************************)
\* ws_connect raises (the endpoint refuses or cannot be reached).
WsConnectRefused(t) ==
  /\ running = 0
  /\ Waiting(t, "ws_connect")
  /\ Wake(t, "exc", 0)
  /\ UNCHANGED notLoop

InitBackoff ==
  /\ TrackInit /\ HistInit
  /\ IntelligenceInit /\ AgentInit /\ LoopInit /\ EndpointInit /\ EnvInit

NextBackoff ==
  \/ OnMeetingJoined
  \/ OnStreamEnabled
  \/ OnMeetingLeft
  \/ RunNext
  \/ \E t \in Tasks : TimerFires(t)
  \/ \E t \in Tasks : ConnectEntry(t)
  \/ \E t \in Tasks : ConnectExcept(t)
  \/ \E t \in Tasks : ConnectBackoff(t)
  \/ \E t \in Tasks : ConnectReturn(t)
  \/ \E t \in Tasks : PumpLoop(t)
  \/ \E t \in Tasks : PumpEnds(t)
  \/ \E t \in Tasks : WsConnectRefused(t)

SpecBackoff == InitBackoff /\ [][NextBackoff]_vars

\* The same agent with the loop and the endpoint making progress.
LiveBackoff == SpecBackoff /\ WF_vars(NextBackoff)

(***************************************************************************)
(* The Scheduler on its own: the transport pulls, a producer submits and   *)
(* interrupts, the processing thread runs in parallel.                     *)
(***************************************************************************)
InitTrack ==
  /\ TrackInit /\ HistInit
  /\ IntelligenceInit /\ AgentInit /\ LoopInit /\ EndpointInit /\ EnvInit

NextTrack ==
  \/ AddNewBytes
  \/ Interrupt
  \/ Recv
  \/ Stop
  \/ ThreadWait
  \/ ThreadGet
  \/ ThreadIter
  \/ ThreadSlice

SpecTrack == InitTrack /\ [][NextTrack]_vars

(***************************************************************************)
(* Claims about the Scheduler, checked under SpecTrack.                    *)
(***************************************************************************)
\* All bytes submitted so far, in submission order.
RECURSIVE SubmittedUpTo(_)
SubmittedUpTo(n) ==
  IF n = 0 THEN <<>> ELSE Concat(SubmittedUpTo(n - 1), <<Seg(n, 0, subLen[n])>>)

AllSubmitted == SubmittedUpTo(nSubs)

\* Every submitted byte has gone through _process_audio.
AllProcessed ==
  /\ task_queue = <<>>
  /\ cur = <<>>
  /\ threadPc # "slice"
  /\ bytes_processed = BufLen(AllSubmitted)

\* C1: with no interrupt, once all submitted bytes are processed the number of
\* frames built is floor(totalBytes / 960) and the accumulator holds
\* totalBytes mod 960 bytes, fewer than one frame.
C1_FramesAreFloor ==
  (nInterrupts = 0 /\ AllProcessed) =>
     /\ frames_processed = bytes_processed \div chunk_size
     /\ BufLen(audio_data_buffer) = bytes_processed % chunk_size
     /\ BufLen(audio_data_buffer) < chunk_size

\* C2: with no interrupt, the payloads of the non-silence frames pulled so
\* far, concatenated, are a prefix of the submitted bytes in submission order.
C2_PulledIsPrefix ==
  nInterrupts = 0 => played = Take(AllSubmitted, BufLen(played))

\* C2 witness: two audio frames pulled, the second running over the boundary
\* between two submissions.
C2_Witness ==
  /\ nInterrupts = 0
  /\ Len(played) = 2
  /\ BufLen(played) = 2 * chunk_size
  /\ ~last.silent /\ Len(last.data) = 2

\* C3: the k-th frame pull returns carries pts (k-1) * 480, audio or silence,
\* interrupt or not.
C3_PtsIsFrameIndex ==
  nrecv > 0 => last.pts = (nrecv - 1) * 480

\* C3 witness: a third pull, after an interrupt, audio pulled before it and
\* silence now.
C3_Witness ==
  /\ nrecv = 3 /\ last.pts = 960
  /\ nInterrupts = 1 /\ lastOp = "recv"
  /\ played # <<>> /\ last.silent

\* C4: a pull that follows an interrupt, with no other call on the track in
\* between, returns a silence frame.
C4_InterruptThenPullIsSilence ==
  [][(lastOp = "interrupt" /\ nrecv' = nrecv + 1) => last'.silent]_vars

\* C5: no frame pulled after an interrupt has returned holds a byte submitted
\* before that interrupt.
C5_NoByteFromBeforeInterrupt ==
  (nrecv > 0 /\ ~last.silent) =>
      \A s \in SubsOf(last.data) : subEpoch[s] >= last.epoch

\* C6: on a live track pull is always possible, whatever the pending list
\* holds, and returns one frame of 480 samples: the oldest pending frame if
\* there is one, else zero-valued silence.
C6_PullNeverWaits ==
  /\ []((readyState = "live" /\ nrecv < MaxPulls) => ENABLED Recv)
  /\ [][nrecv' = nrecv + 1 =>
          /\ last'.samples = 480
          /\ BufLen(last'.data) = 960
          /\ IF Len(frame_buffer) > 0
             THEN /\ last'.data = Head(frame_buffer).data
                  /\ ~last'.silent
                  /\ frame_buffer' = Tail(frame_buffer)
             ELSE /\ last'.silent
                  /\ SubsOf(last'.data) = {0}
                  /\ frame_buffer' = <<>>]_vars

\* C6 witness: a pull answered with silence while submitted audio is still
\* on its way through the processing thread.
C6_Witness ==
  /\ lastOp = "recv" /\ last.silent /\ last.samples = 480
  /\ nInterrupts = 0
  /\ bytes_processed < BufLen(AllSubmitted)

(***************************************************************************)
(* Claims about the agent's message handling, checked under SpecAgent.     *)
(***************************************************************************)
\* C7: in an agent built by AIAgent, handling a speech-started message calls
\* the interruption hook, the hook interrupts the outbound track, and the
\* pending frame list is empty right after the message is handled.
C7_SpeechStartedClearsPending ==
  [][hookCalls' = hookCalls + 1 => frame_buffer' = <<>>]_vars

\* C8: messages act on the track in receipt order: submissions are queued in
\* the order their deltas were received, and no interruption hook runs
\* between the receipt of a delta and its submission, so a delta received
\* before a speech-started is queued before that hook runs and the hook runs
\* before a delta received after it is queued.
C8_ReceiptOrder ==
  \A i \in 1..Len(subHooks) :
     /\ subHooks[i].seq = i
     /\ subHooks[i].recv = subHooks[i].put

\* C8 witness: a delta queued, then the hook of a speech-started, then a
\* delta received after it queued.
C8_Witness ==
  /\ Len(subHooks) = 2
  /\ hookCalls = 1
  /\ subHooks[1].put = 0
  /\ subHooks[2].recv = 1

(***************************************************************************)
(* Claims about the Session Manager's connections, checked under SpecConn. *)
(***************************************************************************)
\* C9: whatever tasks call connect() and however they interleave, at most one
\* connection to the endpoint is open at any time.
C9_AtMostOneOpenConnection ==
  Cardinality({c \in 1..MaxConns : connState[c] = "open"}) <= 1

\* C10: connect() called while the connected flag is set and the connection
\* is open returns at once: it opens no connection, sends nothing, creates or
\* cancels no task and leaves the reconnect counter and the delay as they are.
C10_ConnectNoopWhenConnected ==
  [][\A t \in Tasks :
       (/\ running = t
        /\ Top(t).fn = "connect" /\ Top(t).pc = "entry"
        /\ is_connected /\ ws # 0 /\ connState[ws] = "open")
       => /\ stack'[t] = Pop(stack[t])
          /\ retv' = "ok" \/ tstate'[t] = "done"
          /\ UNCHANGED <<ws, is_connected, reconnect_attempts, reconnect_delay,
                         receive_message_task, nConns, connState, inbox, sent>>
          /\ UNCHANGED <<ready, mustCancel, awaiting>>
          /\ \A u \in Tasks \ {t} : tstate'[u] = tstate[u] /\ stack'[u] = stack[u]]_vars

\* C10 witness: such a call has been made and has returned, the manager still
\* Connected on the same open connection.
C10_Witness ==
  /\ calledConnected
  /\ is_connected /\ ws # 0 /\ connState[ws] = "open"
  /\ \A t \in Tasks : stack[t] = <<>> \/ Top(t).fn # "connect" \/ Top(t).pc # "entry"

(***************************************************************************)
(* The Session Manager used through its API: a caller task awaits          *)
(* update_session or send_audio_data on a manager that has no connection,  *)
(* the endpoint accepts connections and may drop them.                     *)
(***************************************************************************)
\* The task of the orchestrator that calls the manager.
CallerTask == JoinTask

\* A caller awaits fn(arg) on the manager in a task of its own.
Calls(fn, arg) ==
  /\ running = 0
  /\ tstate[CallerTask] = "new"
  /\ stack' = [stack EXCEPT ![CallerTask] = <<Frame(fn, "entry", arg)>>]
  /\ tstate' = [tstate EXCEPT ![CallerTask] = "ready"]
  /\ ready' = Spawned(ready, CallerTask)
  /\ UNCHANGED <<awaiting, running, retv, mustCancel>>
  /\ UNCHANGED notLoop

\* update_session(NewSession) is called.
SupplySession == Calls("update_session", NewSession)

\* send_audio_data(audio) is called.
SupplyAudio == Calls("send_audio_data", 0)

InitSession ==
  /\ TrackInit /\ HistInit
  /\ IntelligenceInit /\ AgentInit /\ LoopInit /\ EndpointInit /\ EnvInit

\* What the manager and the endpoint do, whoever the caller is.
ManagerStep ==
  \/ RunNext
  \/ \E t \in Tasks : ConnectEntry(t)
  \/ \E t \in Tasks : ConnectOpened(t)
  \/ \E t \in Tasks : ConnectReturn(t)
  \/ \E t \in Tasks : UpdateSession(t)
  \/ \E t \in Tasks : UpdateSessionSent(t)
  \/ \E t \in Tasks : SendRequest(t)
  \/ \E t \in Tasks : SendRequestSent(t)
  \/ \E t \in Tasks : PropagateCancel(t)
  \/ \E t \in Tasks : DispatchTop(t)
  \/ \E t \in Tasks : DispatchRead(t)
  \/ \E t \in Tasks : DispatchClosed(t)
  \/ \E t \in Tasks : DispatchExcept(t)
  \/ \E t \in Tasks : WsConnectOk(t)
  \/ \E t \in Tasks : WsSendStr(t)
  \/ \E c \in 1..MaxConns : Drops(c)

\* A caller supplies a session configuration to a fresh manager.
NextSession ==
  \/ SupplySession
  \/ ManagerStep

SpecSession == InitSession /\ [][NextSession]_vars

\* A caller sends audio through a fresh manager.
NextAudio ==
  \/ SupplyAudio
  \/ \E t \in Tasks : SendAudioData(t)
  \/ \E t \in Tasks : SendAudioDataSent(t)
  \/ ManagerStep

SpecAudio == InitSession /\ [][NextAudio]_vars

(***************************************************************************)
(* The message handler of a connected agent on its own: the connect task   *)
(* of on_meeting_joined, the handler it creates and the messages of a      *)
(* healthy endpoint.                                                       *)
(***************************************************************************)
FunctionCallDone ==
  [type |-> "TEXT", kind |-> "response.function_call_arguments.done", size |-> 0, seq |-> 0]

\* The kinds of text message handle_response has no effect for: type error,
\* a type it has no case for, a JSON object without type, and no JSON.
PlainKinds == {"error", "conversation.item.created", "no type", "not JSON"}

PlainMessages ==
  { [type |-> "TEXT", kind |-> k, size |-> 0, seq |-> 0] : k \in PlainKinds }

\* The connect task of on_meeting_joined, the manager, its message handler
\* and the endpoint, which may drop a connection.
DispatchStep ==
  \/ OnMeetingJoined
  \/ \E t \in Tasks : TimerFires(t)
  \/ \E t \in Tasks : HandleResponse(t)
  \/ ManagerStep

\* The endpoint sends messages that need no handling.
NextProtocol ==
  \/ DispatchStep
  \/ \E c \in 1..MaxConns : \E m \in PlainMessages : MsgArrives(c, m)

SpecProtocol == InitAgent /\ [][NextProtocol]_vars

\* The same, with a send_str that may also return without suspending.
NextReconnect ==
  \/ NextProtocol
  \/ \E t \in Tasks : SendRequestAtOnce(t)

SpecReconnect == InitAgent /\ [][NextReconnect]_vars

\* The endpoint sends function calls and speech-started messages.
NextHandler ==
  \/ DispatchStep
  \/ \E t \in Tasks : HandleFunctionCall(t)
  \/ \E t \in Tasks : HandlerFinishes(t)
  \/ \E c \in 1..MaxConns : MsgArrives(c, FunctionCallDone)
  \/ \E c \in 1..MaxConns : MsgArrives(c, SpeechStarted)

SpecHandler == InitAgent /\ [][NextHandler]_vars

(***************************************************************************)
(* close() on a manager in any state: a task of the orchestrator calls     *)
(* close() up to MaxCloses times, one call after the other, while another  *)
(* one connects, supplies a session or sends audio once, and connections   *)
(* fail and drop.                                                          *)
(***************************************************************************)
\* close() is called.
CallsClose ==
  /\ running = 0
  /\ tstate[CloseTask] \in {"new", "done"}
  /\ closed_calls < MaxCloses
  /\ stack' = [stack EXCEPT ![CloseTask] = <<Frame("close", "entry", 0)>>]
  /\ tstate' = [tstate EXCEPT ![CloseTask] = "ready"]
  /\ ready' = Spawned(ready, CloseTask)
  /\ UNCHANGED <<awaiting, running, retv, mustCancel>>
  /\ UNCHANGED notLoop

CloseStep ==
  \/ CallsClose
  \/ \E t \in Tasks : CloseEntry(t)
  \/ \E t \in Tasks : CloseAwaitTask(t)
  \/ \E t \in Tasks : CloseWs(t)
  \/ \E t \in Tasks : CloseSession(t)
  \/ \E t \in Tasks : WsCloseDone(t)
  \/ \E t \in Tasks : WsConnectAborted(t)

NextClose ==
  \/ CloseStep
  \/ OnMeetingJoined
  \/ SupplySession
  \/ SupplyAudio
  \/ \E t \in Tasks : SendAudioData(t)
  \/ \E t \in Tasks : SendAudioDataSent(t)
  \/ \E t \in Tasks : ConnectExcept(t)
  \/ \E t \in Tasks : ConnectBackoff(t)
  \/ \E t \in Tasks : TimerFires(t)
  \/ \E t \in Tasks : WsConnectFails(t)
  \/ ManagerStep

SpecClose == InitSession /\ [][NextClose]_vars


(***************************************************************************)
(* The audio pumps of an agent whose manager is not connected: the         *)
(* participants join and leave, their audio streams are enabled and        *)
(* disabled in any order (MaxPumps tasks at most), and the pumps poll.     *)
(***************************************************************************)
\* The task the next stream-enabled event creates.
FreshPump == CHOOSE k \in PumpTasks :
               tstate[k] = "new" /\ \A j \in PumpTasks : tstate[j] = "new" => k <= j

NextStreams ==
  \/ \E p \in Participants : ParticipantJoined(p)
  \/ \E p \in Participants : ParticipantLeft(p)
  \/ \E s \in Streams :
       /\ Owner(s) \in human_participants
       /\ \E k \in PumpTasks : tstate[k] = "new"
       /\ StreamEnabled(s, FreshPump)
  \/ \E s \in Streams : Owner(s) \in human_participants /\ StreamDisabled(s)
  \/ OnMeetingLeft
  \/ RunNext
  \/ \E t \in Tasks : TimerFires(t)
  \/ \E t \in Tasks : PumpLoop(t)
  \/ \E t \in Tasks : PumpEnds(t)

SpecStreams == InitSession /\ [][NextStreams]_vars


(***************************************************************************)
(* One audio pump on an inbound stream none of whose frames can be        *)
(* transcoded, beside the connect task and the message handlers, with      *)
(* connections that fail and drop.                                         *)
(***************************************************************************)
\* stream.track.recv() or the transcoding of its frame raises.
TrackRecvRaises(t) ==
  /\ running = 0
  /\ Waiting(t, "track_recv")
  /\ Wake(t, "exc", 0)
  /\ UNCHANGED notLoop

NextPump ==
  \/ OnMeetingJoined
  \/ OnStreamEnabled
  \/ OnMeetingLeft
  \/ \E t \in Tasks : TimerFires(t)
  \/ \E t \in Tasks : ConnectExcept(t)
  \/ \E t \in Tasks : ConnectBackoff(t)
  \/ \E t \in Tasks : WsConnectFails(t)
  \/ \E t \in Tasks : WsCloseDone(t)
  \/ \E t \in Tasks : PumpLoop(t)
  \/ \E t \in Tasks : PumpError(t)
  \/ \E t \in Tasks : PumpEnds(t)
  \/ \E t \in Tasks : TrackRecvRaises(t)
  \/ ManagerStep

SpecPump == InitSession /\ [][NextPump]_vars


(***************************************************************************)
(* Cancellation of the audio pump: the agent of SpecConn, whose audio      *)
(* stream can also be disabled, with an event loop that keeps running the  *)
(* tasks that are ready.  Timers, the endpoint and the inbound stream are  *)
(* under no obligation.                                                    *)
(***************************************************************************)
\* The steps the event loop takes by itself: the next ready task is resumed
\* and the running task runs on to its next suspension.
LoopRuns ==
  \/ RunNext
  \/ \E t \in Tasks : ConnectEntry(t)
  \/ \E t \in Tasks : ConnectOpened(t)
  \/ \E t \in Tasks : ConnectExcept(t)
  \/ \E t \in Tasks : ConnectBackoff(t)
  \/ \E t \in Tasks : ConnectReturn(t)
  \/ \E t \in Tasks : UpdateSession(t)
  \/ \E t \in Tasks : UpdateSessionSent(t)
  \/ \E t \in Tasks : SendRequest(t)
  \/ \E t \in Tasks : SendRequestSent(t)
  \/ \E t \in Tasks : SendAudioData(t)
  \/ \E t \in Tasks : SendAudioDataSent(t)
  \/ \E t \in Tasks : PropagateCancel(t)
  \/ \E t \in Tasks : DispatchTop(t)
  \/ \E t \in Tasks : DispatchRead(t)
  \/ \E t \in Tasks : DispatchClosed(t)
  \/ \E t \in Tasks : DispatchExcept(t)
  \/ \E t \in Tasks : PumpLoop(t)
  \/ \E t \in Tasks : PumpSend(t)
  \/ \E t \in Tasks : PumpError(t)
  \/ \E t \in Tasks : PumpEnds(t)

\* The meeting, the timers, the inbound stream and the endpoint.
EnvCancel ==
  \/ OnMeetingJoined
  \/ OnStreamEnabled
  \/ StreamDisabled(1)
  \/ OnMeetingLeft
  \/ \E t \in Tasks : TimerFires(t)
  \/ \E t \in Tasks : TrackRecvOk(t)
  \/ \E t \in Tasks : TrackRecvFails(t)
  \/ \E t \in Tasks : WsConnectOk(t)
  \/ \E t \in Tasks : WsConnectFails(t)
  \/ \E t \in Tasks : WsCloseDone(t)
  \/ \E t \in Tasks : WsSendStr(t)
  \/ \E c \in 1..MaxConns : Drops(c)

NextCancel ==
  \/ LoopRuns
  \/ EnvCancel

SpecCancel == InitConn /\ [][NextCancel]_vars

LiveCancel == SpecCancel /\ WF_vars(LoopRuns)


(***************************************************************************)
(* Concurrent calls of connect(): two callers of a fresh manager whose     *)
(* endpoint cannot be reached.                                             *)
(***************************************************************************)
\* The tasks of the callers.
ConnectCallers == {JoinTask, CloseTask}

\* A caller awaits connect() in a task of its own.
CallsConnect(t) ==
  /\ running = 0
  /\ tstate[t] = "new"
  /\ stack' = [stack EXCEPT ![t] = <<Frame("connect", "entry", 0)>>]
  /\ tstate' = [tstate EXCEPT ![t] = "ready"]
  /\ ready' = Spawned(ready, t)
  /\ UNCHANGED <<awaiting, running, retv, mustCancel>>
  /\ UNCHANGED notLoop

NextRace ==
  \/ \E t \in ConnectCallers : CallsConnect(t)
  \/ RunNext
  \/ \E t \in Tasks : TimerFires(t)
  \/ \E t \in Tasks : ConnectEntry(t)
  \/ \E t \in Tasks : ConnectExcept(t)
  \/ \E t \in Tasks : ConnectBackoff(t)
  \/ \E t \in Tasks : ConnectReturn(t)
  \/ \E t \in Tasks : WsConnectRefused(t)

SpecRace == InitSession /\ [][NextRace]_vars


(***************************************************************************)
(* The connect of a joined agent against an endpoint that answers every    *)
(* request: it accepts or refuses each ws_connect, completes each send and *)
(* each close, and may drop the connections it accepted.  The event loop   *)
(* keeps running and every timer fires.                                    *)
(***************************************************************************)
\* The answer task t is waiting for arrives: its timer fires, or the endpoint
\* completes its ws_connect, its send_str or its ws.close().
Responds(t) ==
  \/ TimerFires(t)
  \/ WsConnectOk(t)
  \/ WsConnectRefused(t)
  \/ WsSendStr(t)
  \/ WsCloseDone(t)

\* The steps of the tasks of the manager.
ManagerRuns ==
  \/ RunNext
  \/ \E t \in Tasks : ConnectEntry(t)
  \/ \E t \in Tasks : ConnectOpened(t)
  \/ \E t \in Tasks : ConnectExcept(t)
  \/ \E t \in Tasks : ConnectBackoff(t)
  \/ \E t \in Tasks : ConnectReturn(t)
  \/ \E t \in Tasks : UpdateSession(t)
  \/ \E t \in Tasks : UpdateSessionSent(t)
  \/ \E t \in Tasks : SendRequest(t)
  \/ \E t \in Tasks : SendRequestSent(t)
  \/ \E t \in Tasks : PropagateCancel(t)
  \/ \E t \in Tasks : DispatchTop(t)
  \/ \E t \in Tasks : DispatchRead(t)
  \/ \E t \in Tasks : DispatchClosed(t)
  \/ \E t \in Tasks : DispatchExcept(t)

NextRetry ==
  \/ OnMeetingJoined
  \/ ManagerRuns
  \/ \E t \in Tasks : Responds(t)
  \/ \E c \in 1..MaxConns : Drops(c)

SpecRetry == InitSession /\ [][NextRetry]_vars

LiveRetry ==
  /\ SpecRetry
  /\ WF_vars(ManagerRuns)
  /\ \A t \in Tasks : WF_vars(Responds(t))


(***************************************************************************)
(* Claims about the reconnect backoff, checked under SpecBackoff and       *)
(* LiveBackoff.                                                            *)
(***************************************************************************)
\* The delay the k-th consecutive failure waits: 1, 2, 4, 8, 16, then 30.
BackoffDelay(k) == IF k >= 6 THEN 30 ELSE 2 ^ (k - 1)

\* A task is at connect's backoff sleep (line 133), the delay not yet doubled.
InBackoff(t) ==
  /\ stack[t] # <<>>
  /\ Top(t).fn = "connect" /\ Top(t).pc = "backoff"

\* Connection attempts made since the last success: the failed ones and the
\* ones under way.
AttemptsMade ==
  reconnect_attempts + Cardinality({t \in Tasks : Waiting(t, "ws_connect")})

\* C11: from a fresh manager the k-th consecutive failure waits 1, 2, 4, 8,
\* 16 seconds for k = 1..5 and 30 seconds from the sixth on, and no more
\* than 5 attempts are made without a success.
C11_BackoffSequence ==
  /\ AttemptsMade <= max_reconnect_attempts
  /\ reconnect_attempts >= 0
  /\ IF \E t \in Tasks : InBackoff(t)
     THEN reconnect_delay = BackoffDelay(reconnect_attempts)
     ELSE reconnect_delay = BackoffDelay(reconnect_attempts + 1)

\* C11 witness: the fifth failure has waited its 16 seconds, the connect task
\* has given up with the exception and the next delay stands at the cap.
C11_Witness ==
  /\ reconnect_attempts = max_reconnect_attempts
  /\ reconnect_delay = max_reconnect_delay
  /\ tstate[JoinTask] = "failed"

\* C12: once the attempt ceiling is reached without a connection the agent
\* leaves the meeting: it does not stay in it for ever, disconnected.
C12_ExhaustionLeavesMeeting ==
  (reconnect_attempts >= max_reconnect_attempts) ~> ~is_running

(***************************************************************************)
(* Claims about the manager's API, checked under SpecSession and          *)
(* SpecAudio.                                                              *)
(***************************************************************************)
\* C13: a configuration supplied through update_session while no connection
\* is open is carried by the first session update sent on the connection
\* opened next, and by the first one sent on every connection opened after a
\* later disconnect.
C13_FirstUpdateCarriesSupplied ==
  \A c \in 1..MaxConns :
     (sent[c] # <<>> /\ sent[c][1].kind = SESSION_UPDATE)
        => sent[c][1].session = NewSession

\* The audio of the caller's send_audio_data has reached the endpoint.
AudioSent ==
  \E c \in 1..MaxConns : \E i \in 1..Len(sent[c]) : sent[c][i].kind = AUDIO_APPEND

\* C14: send_audio_data called with no connection connects first, and when
\* it returns normally the audio has been sent: it never returns normally
\* with the audio unsent.
C14_AudioSentOrFailure ==
  [][(/\ running = CallerTask
      /\ Len(stack[CallerTask]) = 1
      /\ Top(CallerTask).fn = "send_audio_data"
      /\ tstate'[CallerTask] = "done"
      /\ Top(CallerTask).pc = "sent" \/ (Top(CallerTask).pc = "recon" /\ retv = "ok"))
     => AudioSent]_vars

(***************************************************************************)
(* Claims about the message handler, checked under SpecHandler and         *)
(* SpecProtocol.                                                           *)
(***************************************************************************)
\* C15: the handler of a function-call-arguments-done message runs off the
\* dispatch task: while it runs the dispatch task is not held up by it, so
\* no message received after the call waits for the handler to finish.
C15_DispatchNotHeldByHandler ==
  \A t \in Tasks :
     Waiting(t, "executor") =>
        \A i \in 1..Len(inbox[Top(t).conn]) : inbox[Top(t).conn][i].type # "TEXT"

\* C16: handling a text message of type error, of an unknown type, without
\* type or that is no JSON leaves the connection, the connected flag, the
\* reconnect counter and the track's buffers as they are, and the dispatch
\* task goes on to its next read.
C16_PlainMessageChangesNothing ==
  [][\A c \in 1..MaxConns :
       (/\ inbox[c] # <<>>
        /\ Head(inbox[c]).kind \in PlainKinds
        /\ inbox'[c] = Tail(inbox[c]))
       => /\ UNCHANGED <<ws, is_connected, reconnect_attempts, connState>>
          /\ UNCHANGED <<frame_buffer, audio_data_buffer, task_queue>>
          /\ tstate'[running] = "waiting"
          /\ awaiting'[running] = "sleep"
          /\ stack'[running] = SetTopPc(stack[running], "slept")]_vars

\* C16 witness: two such messages have been handled on the open connection
\* and the dispatch task is back waiting for the next message.
C16_Witness ==
  /\ events = MaxEvents
  /\ \A c \in 1..MaxConns : inbox[c] = <<>>
  /\ is_connected /\ ws = 1 /\ connState[1] = "open"
  /\ Waiting(DispatchTask(1), "ws_msg")


(***************************************************************************)
(* close().                                                                *)
(***************************************************************************)
\* What close() is to leave behind: the message handler it knows of is
\* finished, the connection is closed and the HTTP session is closed.
Released ==
  /\ receive_message_task # 0 => tstate[receive_message_task] \in {"done", "failed"}
  /\ ws # 0 => connState[ws] = "closed"
  /\ http_closed

\* A call of close() returns in this step.
CloseReturns == closed_calls' = closed_calls + 1

\* A step close() takes after an earlier call of close() has returned.
LaterCloseStep == closed_calls >= 1 /\ running = CloseTask

\* C17: close() is idempotent and safe from any state.  No call of close()
\* raises; when a call returns the message handler is finished, the
\* connection is closed and the HTTP session is closed; and a call made after
\* close() has returned changes no field of the manager, cancels no task and
\* closes no connection.
C17_CloseSafeAndIdempotent ==
  /\ [](tstate[CloseTask] # "failed")
  /\ [][CloseReturns => Released']_vars
  /\ [][LaterCloseStep =>
         /\ UNCHANGED <<ws, is_connected, receive_message_task, connState>>
         /\ SubSeq(ready', 1, Len(ready)) = ready
         /\ mustCancel' = mustCancel
         /\ ~(tstate'[CloseTask] = "waiting" /\ awaiting'[CloseTask] = "ws_close")]_vars

\* The tasks that are in an attempt to connect: connect() has passed its early
\* returns and called ws_connect (lines 98-109).
Attempting ==
  {t \in Tasks : stack[t] # <<>> /\ Top(t).fn = "connect" /\ Top(t).pc = "ws_connect"}

\* C18: Disconnected after an explicit close() is terminal.  Once a call of
\* close() has returned, no step opens a connection, begins an attempt to
\* connect or creates a message handler.
C18_ClosedIsTerminal ==
  [][closed_calls >= 1 =>
       /\ nConns' = nConns
       /\ Attempting' \subseteq Attempting
       /\ receive_message_task' = receive_message_task]_vars


(***************************************************************************)
(* The audio pumps.                                                        *)
(***************************************************************************)
\* cancel() has been called on task k and k has not seen the CancelledError
\* through yet.
CancelRequested(k) ==
  \/ mustCancel[k]
  \/ \E i \in 1..Len(ready) : ready[i].task = k /\ ready[i].res = "cancel"
  \/ running = k /\ retv = "cancel"

\* The pump tasks of stream s that are neither finished nor cancelled.
LivePumps(s) ==
  {k \in PumpTasks : /\ tstate[k] \notin {"new", "done", "failed"}
                     /\ stack[k][1].loc = s
                     /\ ~CancelRequested(k)}

\* C19: whatever the order of stream-enabled, stream-disabled, participant
\* and meeting-left events, every stream id has at most one pump task that is
\* neither finished nor cancelled.
C19_OnePumpPerStream == \A s \in Streams : Cardinality(LivePumps(s)) <= 1

\* A stream was enabled while its pump was running: the old pump is cancelled
\* and the new one is live and recorded.
C19_Witness ==
  \E s \in Streams : \E k \in PumpTasks :
     /\ tstate[k] \notin {"new", "done", "failed"}
     /\ stack[k][1].loc = s
     /\ CancelRequested(k)
     /\ audio_listener_tasks[s] \in LivePumps(s)

\* C20: a pump is cancelled when its stream is disabled and when its
\* participant leaves.  The step that forgets a stream id and the step in
\* which a participant leaves each end with no pump of the stream, or of any
\* stream of the participant, that is neither finished nor cancelled.
C20_PumpCancelledOnDisableAndLeave ==
  /\ [][\A s \in Streams :
          audio_listener_tasks[s] # 0 /\ audio_listener_tasks'[s] = 0
            => LivePumps(s)' = {}]_vars
  /\ [][\A p \in Participants :
          p \in left' \ left
            => \A s \in Streams : Owner(s) = p => LivePumps(s)' = {}]_vars


(***************************************************************************)
(* The audio pump and its errors.                                          *)
(***************************************************************************)
\* The task k ends in this step.
Ends(k) == tstate[k] \notin {"done", "failed"} /\ tstate'[k] \in {"done", "failed"}

\* C21: an audio pump never terminates because of an error.  A pump task
\* ends only in a step that handles its cancellation or that finds the running
\* flag cleared.
C21_PumpEndsOnlyOnCancelOrFlag ==
  [][\A k \in PumpTasks : Ends(k) => retv = "cancel" \/ ~is_running]_vars


(***************************************************************************)
(* Leaving the meeting.                                                    *)
(***************************************************************************)
\* Nothing is left to run: no task runs or is ready, and a task that waits
\* waits for a message of the endpoint.
Settled ==
  /\ running = 0
  /\ ready = <<>>
  /\ \A t \in Tasks : tstate[t] = "waiting" => awaiting[t] = "ws_msg"

\* C22: on meeting-left (on_meeting_left and leave() run the same statements)
\* every pump is cancelled and the manager is closed.  Once the meeting is
\* left and the work in hand is done, no pump task is left, the message handler
\* is finished and the connection is closed.
C22_MeetingLeftClosesManager ==
  (~is_running /\ Settled) =>
     /\ \A k \in PumpTasks : tstate[k] \in {"new", "done", "failed"}
     /\ receive_message_task # 0 => tstate[receive_message_task] \in {"done", "failed"}
     /\ ws # 0 => connState[ws] = "closed"


(***************************************************************************)
(* The session instructions of two participants.                          *)
(***************************************************************************)
\* Some task is in a call of update_session.
SessionPushed ==
  \E t \in Tasks : \E i \in 1..Len(stack[t]) : stack[t][i].fn = "update_session"

\* C23: the participant-joined event that brings the recorded human
\* participants to two pushes a session-update to the manager: the step ends
\* with a call of update_session under way.
C23_TwoParticipantsPushInstructions ==
  [][(human_participants' # human_participants /\ Cardinality(human_participants') = 2)
       => SessionPushed']_vars


(***************************************************************************)
(* The session configuration on a new connection.                         *)
(***************************************************************************)
\* A session-update carrying the manager's session configuration is among the
\* messages sent on connection c.
ConfigSentOn(c) ==
  \E i \in 1..Len(sent[c]) : sent[c][i] = Message(SESSION_UPDATE, session_update_params)

\* C24: every connection that was established, by whichever task, gets a
\* session-update carrying the session configuration.  Once nothing is left to
\* run, every connection that is open has had one sent on it.
C24_ConfigSentOnEveryConnection ==
  Settled => \A c \in 1..MaxConns : connState[c] = "open" => ConfigSentOn(c)


(***************************************************************************)
(* Cancellation of the audio pump, checked under LiveCancel.               *)
(***************************************************************************)
\* Pump task k has been asked to stop: cancel() was called on it, or the
\* meeting was left while it was recorded for a stream.
AskedToStop(k) ==
  \/ CancelRequested(k)
  \/ /\ ~is_running
     /\ tstate[k] # "new"
     /\ \E s \in Streams : audio_listener_tasks[s] = k

Ended(k) == tstate[k] \in {"done", "failed"}

\* The audio messages in the logs of the connections.
AudioLogged(log) == [c \in 1..MaxConns |-> Logged(log[c], AUDIO_APPEND)]

\* C25: a pump task that was asked to stop ends, wherever it is suspended,
\* and once the pump tasks have ended no audio message is sent.
C25_CancelledPumpTerminates ==
  /\ \A k \in PumpTasks : AskedToStop(k) ~> Ended(k)
  /\ [][(\A k \in PumpTasks : tstate[k] = "new" \/ Ended(k))
          => AudioLogged(sent') = AudioLogged(sent)]_vars


(***************************************************************************)
(* The readers of the current connection.                                  *)
(***************************************************************************)
\* The message handler tasks that have not ended and that cancel() has not
\* been called on.
LiveDispatch ==
  {t \in Tasks : /\ tstate[t] \notin {"new", "done", "failed"}
                 /\ stack[t][1].fn = "receive_message_handler"
                 /\ ~CancelRequested(t)}

\* Some message handler task that cancel() was called on is in a read of the
\* current connection.
CancelledReaderOfCurrent ==
  \E t \in Tasks : ws # 0 /\ Reading(t, ws) /\ CancelRequested(t)

\* C26: while the manager is Connected there is exactly one message handler
\* task that is not cancelled, and a handler task that connect() cancelled,
\* the one that called connect() included, is never in a read of the current
\* connection.
C26_OneReaderOfCurrentConnection ==
  /\ ConnectedGuard => Cardinality(LiveDispatch) = 1
  /\ ~CancelledReaderOfCurrent


(***************************************************************************)
(* The reconnect counter under concurrent connects, checked under SpecRace.*)
(***************************************************************************)
\* The delays of the backoff.
BackoffDelays == {1, 2, 4, 8, 16, 30}

\* Task t has just come out of a successful ws_connect: connect() has reset
\* the counter and the delay and is about to run update_session (line 123).
JustConnected(t) ==
  /\ running = t
  /\ Len(stack[t]) >= 2
  /\ Top(t).fn = "update_session" /\ Top(t).pc = "entry"
  /\ stack[t][Len(stack[t]) - 1].fn = "connect"
  /\ stack[t][Len(stack[t]) - 1].pc = "after_update"

\* C27: whatever the interleaving of the calls of connect(), the counter of
\* attempts stays within 0..5, the delay is one of 1, 2, 4, 8, 16, 30, and
\* right after a successful connection the counter is 0 and the delay 1.
C27_AttemptsWithinCeiling ==
  /\ reconnect_attempts >= 0
  /\ reconnect_attempts <= max_reconnect_attempts
  /\ reconnect_delay \in BackoffDelays
  /\ \A t \in Tasks : JustConnected(t) =>
        reconnect_attempts = 0 /\ reconnect_delay = initial_reconnect_delay


(***************************************************************************)
(* How connect() ends after a retry, checked under SpecConn.               *)
(***************************************************************************)
\* In this step a call of connect() by task t raises an exception to its
\* caller, or out of the task when t has no other frame.
ConnectRaises(t) ==
  /\ running = t /\ t # 0
  /\ Top(t).fn = "connect"
  /\ Len(stack'[t]) = Len(stack[t]) - 1
  /\ retv' = "exc" \/ tstate'[t] = "failed"

\* C28: connect() raises only when it leaves the manager not Connected; a
\* call whose retry succeeded, so that the connection is open and the flag
\* set, returns normally.
C28_ConnectRaisesOnlyWhenDisconnected ==
  [][\A t \in Tasks :
       ConnectRaises(t) => ~(is_connected' /\ ws' # 0 /\ connState'[ws'] = "open")]_vars


(***************************************************************************)
(* Termination of connect(), checked under LiveRetry.                      *)
(***************************************************************************)
\* Task t is in a call of connect().
InConnect(t) == \E i \in 1..Len(stack[t]) : stack[t][i].fn = "connect"

\* C29: every call of connect() returns or raises in the end, whatever the
\* endpoint answers.
C29_ConnectTerminates ==
  \A t \in Tasks : InConnect(t) ~> ~InConnect(t)


(***************************************************************************)
(* Delivery of the submitted audio, checked under SpecTrack.               *)
(***************************************************************************)
\* C30: with no interrupt, every byte of a complete frame of the submitted
\* audio is pulled in the end, without any further submission: once the
\* processing thread has gone through all that was submitted and the pulls
\* have emptied frame_buffer, the audio pulled is the submitted audio up to
\* its last complete frame.
C30_CompleteFramesArePulled ==
  (nInterrupts = 0 /\ AllProcessed /\ frame_buffer = <<>>) =>
     BufLen(played) = (BufLen(AllSubmitted) \div chunk_size) * chunk_size


(***************************************************************************)
(* The record of the audio pumps, checked under SpecStreams.               *)
(***************************************************************************)
\* C31: every pump task that was created and is neither finished nor
\* cancelled is the task recorded in audio_listener_tasks under its stream
\* id, and the step that leaves the meeting ends with no such pump at all.
C31_LivePumpsAreRecorded ==
  /\ [](\A s \in Streams : \A k \in LivePumps(s) : audio_listener_tasks[s] = k)
  /\ [][(is_running /\ ~is_running') => \A s \in Streams : LivePumps(s)' = {}]_vars

\* Both streams have their recorded pump running, after a pump of an earlier
\* stream-enabled event was cancelled and has ended.
C31_Witness ==
  /\ \A s \in Streams : audio_listener_tasks[s] \in LivePumps(s)
  /\ \E j \in PumpTasks : tstate[j] = "done"

=============================================================================
